---- MODULE Spec2Model ----
(***************************************************************************)
(* The plain-text document parser of idnits (lib/parsers/txt.mjs): the     *)
(* line scanner of parse(), with the module-level regular expressions      *)
(* whose lastIndex outlives a call.                                        *)
(*                                                                         *)
(* A line is a sequence of tokens.  A token is one character (" ", ".",    *)
(* "/", "*", "#", "'", ":", a digit, "FF" for the form feed) or a run of   *)
(* letters (a word such as "Introduction").  The regular expressions of    *)
(* the source are operators over such sequences; character offsets         *)
(* (lastIndex, match.index) are computed from the widths of the tokens.    *)
(***************************************************************************)
EXTENDS Integers, Sequences, FiniteSets, TLC

VARIABLES
  pc,                  \* "idle" | "scan" | "done" | "failed": where parse() is
  doc,                 \* rawText.split('\n'), the lines consumed so far
  lineIdx,             \* let lineIdx
  markers,             \* const markers
  content,             \* data.content
  title,               \* data.title (<<>> is null)
  slug,                \* data.slug (<<>> is null)
  currentSection,      \* let currentSection ("null" is null)
  currentSubSection,   \* let currentSubSection ("null" is null)
  inCodeBlock,         \* let inCodeBlock
  inlineCode,          \* data.possibleIssues.inlineCode
  pageCount,           \* data.pageCount
  header,              \* data.header: source, authors, date, status fields
  docKind,             \* let docKind ("null" is null)
  statusLastIndex,     \* the lastIndex of each rfcStatusHierarchy[k].regex
  rawText,             \* the document, when it is chosen with the call
  boilerplate,         \* data.boilerplate
  patternsLastIndex,   \* the lastIndex of each of BOILERPLATE_PATTERNS
  partsLastIndex,      \* the lastIndex of each part of BOILERPLATE_PARTS
  extractedElements,   \* data.extractedElements: the four citation lists
  swept,               \* the indices of the lines the extractors have read
  error,               \* the ValidationError parse() has thrown, or NoError
  inlineCodeLastIndex, \* INLINE_CODE_FORMAT.lastIndex (module level)
  subsectionLastIndex, \* SUBSECTION_PATTERN.lastIndex (module level)
  calls,               \* the number of calls of parse() so far
  returned,            \* the records parse() has returned to its callers
  cachedDownrefRegistry, \* let cachedDownrefRegistry (module level)
  requests,            \* the requests for the registry sent to the network
  fetchFailed,         \* whether a request for the registry has failed
  callers,             \* the calls of checkReferencesInDownrefs in progress
  rfcNumLastIndex,     \* RFC_NUM_RE.lastIndex (module level)
  validation,          \* the last call of a validator and its outcome
  validations          \* the number of calls of the validators so far

vars == <<pc, doc, lineIdx, markers, content, title, slug, currentSection,
          currentSubSection, inCodeBlock, inlineCode, pageCount, header,
          docKind, statusLastIndex, rawText, boilerplate,
          patternsLastIndex, partsLastIndex,
          extractedElements, swept, error, inlineCodeLastIndex,
          subsectionLastIndex, calls, returned, cachedDownrefRegistry,
          requests, fetchFailed, callers, rfcNumLastIndex, validation,
          validations>>

\* the state of parse() and of the regular expressions of its module
parserVars == <<pc, doc, lineIdx, markers, content, title, slug,
                currentSection, currentSubSection, inCodeBlock, inlineCode,
                pageCount, header, docKind, statusLastIndex, rawText,
                boilerplate, patternsLastIndex, partsLastIndex,
                extractedElements, swept, error, inlineCodeLastIndex,
                subsectionLastIndex, calls, returned>>

\* the state of the downref registry module
downrefVars == <<cachedDownrefRegistry, requests, fetchFailed, callers>>

\* the state of the validators of the metadata and of the references
validatorVars == <<rfcNumLastIndex, validation, validations>>

----------------------------------------------------------------------------
(* Bounds *)

MaxLines == 6

MaxBodyLines == 4

MaxCallLines == 2

MaxCalls == 2

MaxRefLines == 4

MaxCodeLines == 4

MaxHeaderLines == 3

MaxKindLines == 3

MaxBoilerCalls == 2
\* the calls of checkReferencesInDownrefs of one process
MaxCallers == 2
\* the calls of the validators on one record
MaxValidations == 2

----------------------------------------------------------------------------
(* Tokens *)

Digits == {"0", "1", "2", "3", "4", "5", "6", "7", "8", "9"}

Quotes == {"'"}

IsDigit(t) == t \in Digits

\* \s: the space and the form feed are the whitespace of the model
Spaces == {" ", "FF"}

IsSpace(t) == t \in Spaces

IsPunct(t) ==
  t \in {".", "/", "*", "#", ":", "<", ">", "[", "]", "-", ",", ";"}
    \cup Quotes

IsWord(t) == ~IsDigit(t) /\ ~IsSpace(t) /\ ~IsPunct(t)

\* \w: a letter, a digit or the underscore
IsWordChar(t) == IsDigit(t) \/ IsWord(t)

\* the number of characters of a token
TokLen(t) ==
  CASE t = "idr" -> 3
    [] t = "Zhang" -> 5
    [] t = "Abstract" -> 8
    [] t = "text" -> 4
    [] t = "Introduction" -> 12
    [] t = "References" -> 10
    [] t = "Status" -> 6
    [] t = "of" -> 2
    [] t = "Memo" -> 4
    [] t = "Authors" -> 7
    [] t = "Addresses" -> 9
    [] t = "Title" -> 5
    [] t = "draft" -> 5
    [] t = "RFC" -> 3
    [] t = "rfc" -> 3
    [] t = "Normative" -> 9
    [] t = "Informative" -> 11
    [] t = "Obsoletes" -> 9
    [] t = "CODE" -> 4
    [] t = "code" -> 4
    [] t = "BEGINS" -> 6
    [] t = "begins" -> 6
    [] t = "ENDS" -> 4
    [] t = "May" -> 3
    [] t = "The key words" -> 13
    [] t = "MUST to SHALL" -> 39
    [] t = "SHALL NOT to RECOMMENDED" -> 50
    [] t = "NOT RECOMMENDED" -> 17
    [] t = "MAY, and OPTIONAL" -> 21
    [] t = "in this document are to be interpreted as described in" -> 54
    [] t = "Key words for use in RFCs to Indicate Requirement Levels" -> 58
    [] t = "BCP" -> 3
    [] t = "Internet" -> 8
    [] t = "Draft" -> 5
    [] t = "Request" -> 7
    [] t = "for" -> 3
    [] t = "Comments" -> 8
    [] t = "Intended" -> 8
    [] t = "status" -> 6
    [] t = "Category" -> 8
    [] t = "Standards" -> 9
    [] t = "standards" -> 9
    [] t = "Track" -> 5
    [] t = "track" -> 5
    [] t = "Informational" -> 13
    [] t = "informational" -> 13
    [] t = "info" -> 4
    [] t = "undefined" -> 9
    [] t = "internet" -> 8
    [] t = "standard" -> 8
    [] t = "proposed" -> 8
    [] t = "best" -> 4
    [] t = "current" -> 7
    [] t = "practice" -> 8
    [] t = "experimental" -> 12
    [] t = "historic" -> 8
    [] t = "std" -> 3
    [] t = "ds" -> 2
    [] t = "ps" -> 2
    [] t = "bcp" -> 3
    [] t = "exp" -> 3
    [] t = "hist" -> 4
    [] t = "Obsoletes" -> 9
    [] t = "obsoletes" -> 9
    [] t = "Updates" -> 7
    [] OTHER -> 1

\* the flag i of a regular expression: letters compare in lower case
LowerTok(t) ==
  CASE t = "Introduction" -> "introduction"
    [] t = "Overview" -> "overview"
    [] t = "Background" -> "background"
    [] t = "References" -> "references"
    [] t = "Security" -> "security"
    [] t = "IANA" -> "iana"
    [] t = "Considerations" -> "considerations"
    [] t = "Authors" -> "authors"
    [] t = "Author" -> "author"
    [] t = "Editors" -> "editors"
    [] t = "Editor" -> "editor"
    [] t = "Addresses" -> "addresses"
    [] t = "Information" -> "information"
    [] t = "Contact" -> "contact"
    [] t = "CODE" -> "code"
    [] t = "BEGINS" -> "begins"
    [] t = "ENDS" -> "ends"
    [] t = "RFC" -> "rfc"
    [] t = "Normative" -> "normative"
    [] t = "Informative" -> "informative"
    [] t = "Standards" -> "standards"
    [] t = "Track" -> "track"
    [] t = "Informational" -> "informational"
    [] t = "Obsoletes" -> "obsoletes"
    [] t = "Updates" -> "updates"
    [] OTHER -> t

IgnoreCase(l) == [i \in DOMAIN l |-> LowerTok(l[i])]

Min(S) == CHOOSE x \in S : \A y \in S : x <= y

Max(S) == CHOOSE x \in S : \A y \in S : x >= y

\* the number of leading tokens of l that are in the class S
CountLeading(l, S) ==
  LET stop == {i \in 1..Len(l) : l[i] \notin S}
  IN  IF stop = {} THEN Len(l) ELSE Min(stop) - 1

Drop(l, n) == SubSeq(l, n + 1, Len(l))

Range(f) == {f[i] : i \in DOMAIN f}

StartsWith(l, p) == Len(l) >= Len(p) /\ SubSeq(l, 1, Len(p)) = p

\* the character offset of token i of l (0-based, as a JavaScript index)
Offset(l, i) ==
  LET RECURSIVE Sum(_)
      Sum(k) == IF k = 0 THEN 0 ELSE Sum(k - 1) + TokLen(l[k])
  IN  Sum(i - 1)

\* String.prototype.trim
Trim(l) ==
  LET keep == {i \in 1..Len(l) : ~IsSpace(l[i])}
  IN  IF keep = {} THEN <<>> ELSE SubSeq(l, Min(keep), Max(keep))

Reverse(l) == [i \in 1..Len(l) |-> l[Len(l) + 1 - i]]

\* String.prototype.includes, for a sequence of tokens
Contains(l, p) ==
  \E i \in 0..(Len(l) - Len(p)) : SubSeq(l, i + 1, i + Len(p)) = p

----------------------------------------------------------------------------
(* Regular expressions of the module *)

\* /^(?<left>.*)\s{2,}(?<right>.*)$/ : left is greedy, so the gap is the last
\* pair of adjacent whitespace characters; matched = FALSE is exec() === null
LINE_VALUES_EXTRACT_RE(l) ==
  LET gaps == {i \in 1..(Len(l) - 1) : IsSpace(l[i]) /\ IsSpace(l[i + 1])}
  IN  IF gaps = {}
      THEN [matched |-> FALSE, left |-> <<>>, right |-> <<>>]
      ELSE [matched |-> TRUE,
            left |-> SubSeq(l, 1, Max(gaps) - 1),
            right |-> Drop(l, Max(gaps) + 1)]

\* the text after "<digits>." and the whitespace that follows it; ok = FALSE
\* when l does not begin with /^\d+\.\s+/
AfterNumber(l) ==
  LET n == CountLeading(l, Digits)
      rest == Drop(l, n + 1)
      s == CountLeading(rest, Spaces)
  IN  IF n >= 1 /\ Len(l) >= n + 2 /\ l[n + 1] = "." /\ s >= 1
      THEN [ok |-> TRUE, first |-> Drop(l, n + 2), text |-> Drop(rest, s)]
      ELSE [ok |-> FALSE, first |-> <<>>, text |-> <<>>]

\* /^\d+\.\s+.+$/ : one whitespace character, then at least one character
SECTION_PATTERN(l) == AfterNumber(l).ok /\ Len(AfterNumber(l).first) >= 1

\* /\.+\s*\d+$/ : a run of periods, optional whitespace, digits, end of line
TOC_PATTERN(l) ==
  LET r == Reverse(l)
      d == CountLeading(r, Digits)
      afterDigits == Drop(r, d)
      s == CountLeading(afterDigits, Spaces)
  IN  d >= 1 /\ Len(afterDigits) > s /\ afterDigits[s + 1] = "."

AuthorWords == {"author", "editor"}

AuthorsWords == {"authors", "editors"}

IsAlnumDot(t) == IsDigit(t) \/ t = "." \/ IsWord(t)

\* the texts that can follow /^[0-9a-z.]*\s*/ in l (the prefix backtracks)
AfterPrefix(l) ==
  {LET r == Drop(l, p) IN Drop(r, CountLeading(r, Spaces)) :
     p \in 0..CountLeading(l, {t \in Range(l) : IsAlnumDot(t)})}

\* /^(Authors?|Editors?)[<quote>] Addresses$/i, <quote> one of the quotation
\* marks of the class
AUTHORS_OR_EDITORS_ADDRESSES_RE(l) ==
  /\ Len(l) = 4
  /\ LowerTok(l[1]) \in AuthorWords \cup AuthorsWords
  /\ l[2] \in Quotes
  /\ l[3] = " "
  /\ LowerTok(l[4]) = "addresses"

\* /^[0-9a-z.]*\s*author information$/i
AUTHOR_INFORMATION_RE(l) ==
  <<"author", " ", "information">> \in AfterPrefix(IgnoreCase(l))

\* /^[0-9a-z.]*\s*(author|editor)(?:[<quote>]s?|s)?\s+contact information$/i
AUTHOR_CONTACT_INFORMATION_RE(l) ==
  \E t \in AfterPrefix(IgnoreCase(l)) :
    /\ Len(t) >= 1
    /\ \E k \in 1..3 :
         /\ Len(t) > k
         /\ \/ k = 1 /\ t[1] \in AuthorWords \cup AuthorsWords
            \/ k = 2 /\ t[1] \in AuthorWords /\ t[2] \in Quotes
            \/ k = 3 /\ t[1] \in AuthorWords /\ t[2] \in Quotes /\ t[3] = "s"
         /\ LET r == Drop(t, k)
                s == CountLeading(r, Spaces)
            IN  s >= 1 /\ Drop(r, s) = <<"contact", " ", "information">>

\* /^[0-9a-z.]*\s*contact information$/i
CONTACT_INFORMATION_RE(l) ==
  <<"contact", " ", "information">> \in AfterPrefix(IgnoreCase(l))

\* /^[0-9a-z.]*\s*(author|editor)s?:?$/i
AUTHOR_EDITORS_RE(l) ==
  \E t \in AfterPrefix(IgnoreCase(l)) :
    /\ Len(t) \in {1, 2}
    /\ t[1] \in AuthorWords \cup AuthorsWords
    /\ Len(t) = 2 => t[2] = ":"

AUTHOR_SECTION_RE(l) ==
  \/ AUTHORS_OR_EDITORS_ADDRESSES_RE(l)
  \/ AUTHOR_INFORMATION_RE(l)
  \/ AUTHOR_CONTACT_INFORMATION_RE(l)
  \/ CONTACT_INFORMATION_RE(l)
  \/ AUTHOR_EDITORS_RE(l)

\* the titles without the $ that anchors them
TitleOneOf_Unanchored(text, titles) == \E t \in titles : StartsWith(text, t)

\* /^\d+\.\s+(t1|t2|...)$/i for the titles given: the text after the number
\* is one of the titles, to the end of the line
TitleOneOf(text, titles) == text \in titles

NumberedTitle(l, titles) ==
  AfterNumber(l).ok /\ TitleOneOf(IgnoreCase(AfterNumber(l).text), titles)

\* sectionMatchers.find(({ regex }) => regex.test(trimmedLine)): the name of
\* the first matcher, in table order, or "null" for undefined
sectionMatchers(l) ==
  IF NumberedTitle(l, {<<"introduction">>, <<"overview">>, <<"background">>})
  THEN "introduction"
  ELSE IF NumberedTitle(l, {<<"security", " ", "considerations">>})
  THEN "securityConsiderations"
  ELSE IF AUTHOR_SECTION_RE(l)
  THEN "authorAddress"
  ELSE IF NumberedTitle(l, {<<"references">>})
  THEN "references"
  ELSE IF NumberedTitle(l, {<<"iana", " ", "considerations">>})
  THEN "ianaConsiderations"
  ELSE "null"

\* INLINE_CODE_FORMAT.exec(line), /\/\*|\*\/|^ *#/ig, from lastIndex: the
\* leftmost match at or after lastIndex; ^ matches at offset 0 only.
\* found = FALSE is null, and exec() then resets lastIndex to 0.
INLINE_CODE_FORMAT_exec(l, lastIndex) ==
  LET sp == CountLeading(l, {" "})
      hash == lastIndex = 0 /\ Len(l) > sp /\ l[sp + 1] = "#"
      pairs == {i \in 1..(Len(l) - 1) :
                  /\ Offset(l, i) >= lastIndex
                  /\ <<l[i], l[i + 1]>> \in {<<"/", "*">>, <<"*", "/">>}}
  IN  IF hash
      THEN [found |-> TRUE, index |-> 0, lastIndex |-> sp + 1]
      ELSE IF pairs # {}
      THEN [found |-> TRUE, index |-> Offset(l, Min(pairs)),
            lastIndex |-> Offset(l, Min(pairs)) + 2]
      ELSE [found |-> FALSE, index |-> 0, lastIndex |-> 0]

\* the number of characters of a line
StrLen(l) == Offset(l, Len(l) + 1)

\* SUBSECTION_PATTERN.test(l), /^\d+\.\d+\.\s+(.+)$/ig, from lastIndex: ^ matches
\* at offset 0 only, and a match, to the end of the line, leaves lastIndex at
\* the length of the line; a failed test resets lastIndex to 0
SUBSECTION_PATTERN_test(l, lastIndex) ==
  LET n == CountLeading(l, Digits)
      r == Drop(l, n + 1)
      m == CountLeading(r, Digits)
      q == Drop(r, m + 1)
      s == CountLeading(q, Spaces)
      shape == /\ n >= 1 /\ Len(l) > n /\ l[n + 1] = "."
               /\ m >= 1 /\ Len(r) > m /\ r[m + 1] = "."
               /\ s >= 1 /\ Len(q) > 1
  IN  IF lastIndex = 0 /\ shape
      THEN [matched |-> TRUE, lastIndex |-> StrLen(l)]
      ELSE [matched |-> FALSE, lastIndex |-> 0]

\* the text after "<digits>.<digits>." and the whitespace that follows it
AfterSubNumber(l) ==
  LET n == CountLeading(l, Digits)
      r == Drop(l, n + 1)
      m == CountLeading(r, Digits)
      q == Drop(r, m + 1)
      s == CountLeading(q, Spaces)
  IN  IF /\ n >= 1 /\ Len(l) > n /\ l[n + 1] = "."
         /\ m >= 1 /\ Len(r) > m /\ r[m + 1] = "."
         /\ s >= 1
      THEN [ok |-> TRUE, text |-> Drop(q, s)]
      ELSE [ok |-> FALSE, text |-> <<>>]

\* /^\d+\.\d+\.\s+<word>\s+References$/i
SubTitle(l, word) ==
  LET t == IgnoreCase(AfterSubNumber(l).text)
  IN  /\ AfterSubNumber(l).ok
      /\ Len(t) >= 3
      /\ t[1] = word
      /\ t[Len(t)] = "references"
      /\ \A i \in 2..(Len(t) - 1) : IsSpace(t[i])

\* subsectionMatchers.find(({ regex }) => regex.test(trimmedLine)): the name
\* of the first matcher, or "null" when none matches
subsectionMatchers(l) ==
  IF SubTitle(l, "normative") THEN "normative_references"
  ELSE IF SubTitle(l, "informative") THEN "informative_references"
  ELSE "null"

\* the matches of RFC_REFERENCE_RE, /\bRFC\s?(\d+)\b|\[RFC(\d+)\]/gi, in l,
\* from left to right: the numbers captured (rfcMatch[1] || rfcMatch[2])
RFC_REFERENCE_RE(l) ==
  LET RECURSIVE From(_)
      From(i) ==
        IF i > Len(l) THEN <<>>
        ELSE
          LET k == IF i + 1 <= Len(l) /\ IsSpace(l[i + 1]) THEN i + 2
                   ELSE i + 1
              n == CountLeading(Drop(l, k - 1), Digits)
              bare == /\ LowerTok(l[i]) = "rfc"
                      /\ (i = 1 \/ ~IsWordChar(l[i - 1]))
                      /\ n >= 1
                      /\ (k + n > Len(l) \/ ~IsWordChar(l[k + n]))
              m == CountLeading(Drop(l, i + 1), Digits)
              bracket == /\ l[i] = "["
                         /\ i + 1 <= Len(l) /\ LowerTok(l[i + 1]) = "rfc"
                         /\ m >= 1
                         /\ i + 2 + m <= Len(l) /\ l[i + 2 + m] = "]"
          IN  IF bare
              THEN <<SubSeq(l, k, k + n - 1)>> \o From(k + n)
              ELSE IF bracket
              THEN <<SubSeq(l, i + 2, i + 1 + m)>> \o From(i + 3 + m)
              ELSE From(i + 1)
  IN  From(1)

\* [a-zA-Z0-9-.]
IsRefChar(t) == IsWordChar(t) \/ t \in {"-", "."}

\* the matches of NON_RFC_REFERENCE_RE, /\[(?!RFC\d+)[a-zA-Z0-9-.]+\]/gi, in
\* l, from left to right: the text matched, brackets included (draftMatch[0])
NON_RFC_REFERENCE_RE(l) ==
  LET RECURSIVE From(_)
      From(i) ==
        IF i > Len(l) THEN <<>>
        ELSE
          LET n == CountLeading(Drop(l, i), {t \in Range(l) : IsRefChar(t)})
              rfc == /\ i + 2 <= Len(l)
                     /\ LowerTok(l[i + 1]) = "rfc"
                     /\ IsDigit(l[i + 2])
              ok == /\ l[i] = "["
                    /\ ~rfc
                    /\ n >= 1
                    /\ i + 1 + n <= Len(l) /\ l[i + 1 + n] = "]"
          IN  IF ok
              THEN <<SubSeq(l, i, i + 1 + n)>> \o From(i + 2 + n)
              ELSE From(i + 1)
  IN  From(1)

\* /^[a-z]\.\s[a-z]+$/i
AUTHOR_NAME_RE(l) ==
  /\ Len(l) = 4
  /\ IsWord(l[1]) /\ TokLen(l[1]) = 1
  /\ l[2] = "."
  /\ IsSpace(l[3])
  /\ IsWord(l[4])

\* /^(?:(?<day>[0-9]{1,2})\s)?(?<month>[a-z]{3,})\s(?<year>[0-9]{4})$/i
DATE_RE(l) ==
  LET d == CountLeading(l, Digits)
      r == IF d \in {1, 2} /\ Len(l) > d /\ IsSpace(l[d + 1])
           THEN Drop(l, d + 1) ELSE l
  IN  /\ Len(r) = 6
      /\ IsWord(r[1]) /\ TokLen(r[1]) >= 3
      /\ IsSpace(r[2])
      /\ \A i \in 3..6 : IsDigit(r[i])

----------------------------------------------------------------------------
(* parse(): the record under construction *)

Sections == {"abstract", "introduction", "securityConsiderations",
             "authorAddress", "references", "ianaConsiderations"}

NoMarker == [start |-> 0, end |-> 0, closed |-> FALSE]

InitMarkers ==
  [header |-> [start |-> 0, end |-> 0, lastAuthor |-> 0, closed |-> FALSE],
   title |-> 0,
   slug |-> 0,
   abstract |-> NoMarker,
   introduction |-> NoMarker,
   securityConsiderations |-> NoMarker,
   authorAddress |-> NoMarker,
   references |-> NoMarker,
   ianaConsiderations |-> NoMarker]

\* a section's buffer: null, or the lines pushed so far
Null == [isNull |-> TRUE, lines |-> <<>>]

Empty == [isNull |-> FALSE, lines |-> <<>>]

InitContent == [x \in Sections |-> Null]

\* data.header: source (<<>> is null), authors, whether date is set, and
\* rfcNumber, intendedStatus and category (<<>> is undefined)
InitHeader ==
  [source |-> <<>>, authors |-> <<>>, date |-> FALSE, rfcNumber |-> <<>>,
   intendedStatus |-> <<>>, category |-> <<>>]

\* { name }: an author whose org is undefined
Author(name) == [name |-> name, hasOrg |-> FALSE, org |-> <<>>]

\* the org given to the last author, whatever org that author has
SetOrgs_Overwrite(authors, org) ==
  [i \in DOMAIN authors |->
     IF i = Len(authors) THEN [authors[i] EXCEPT !.hasOrg = TRUE, !.org = org]
     ELSE authors[i]]

\* data.header.authors.findLast(el => ...): from the last author backwards,
\* every author gets org until one that has an org (the empty string counts)
SetOrgs(authors, org) ==
  LET have == {i \in DOMAIN authors : authors[i].hasOrg}
      from == IF have = {} THEN 1 ELSE Max(have) + 1
  IN  [i \in DOMAIN authors |->
         IF i >= from THEN [authors[i] EXCEPT !.hasOrg = TRUE, !.org = org]
         ELSE authors[i]]

\* the part of the scan state the header and section steps read and write
Scan == [markers |-> markers, content |-> content, title |-> title,
         slug |-> slug, currentSection |-> currentSection,
         header |-> header, docKind |-> docKind,
         statusLastIndex |-> statusLastIndex]

\* --> Source, --> Author: data.header.source = values.groups.left and
\* data.header.authors.push({ name: values.groups.right })
FirstLine(hd, values) ==
  [hd EXCEPT !.source = values.left,
             !.authors = Append(@, Author(values.right))]

\* err.message of the TypeError of values.groups when values is null
NullGroups == "Cannot read properties of null (reading 'groups')"

\* err.message of the TypeError of obsoletesValues.indexOf
UndefinedIndexOf == "Cannot read properties of undefined (reading 'indexOf')"

\* values.left.split(':')?.[1]?.trim(): the text between the first colon and
\* the second, trimmed; defined = FALSE when there is no colon
AfterColon(l) ==
  LET colons == {i \in 1..Len(l) : l[i] = ":"}
      first == Min(colons)
      later == {i \in colons : i > first}
      stop == IF later = {} THEN Len(l) + 1 ELSE Min(later)
  IN  IF colons = {} THEN [defined |-> FALSE, text |-> <<>>]
      ELSE [defined |-> TRUE, text |-> Trim(SubSeq(l, first + 1, stop - 1))]

\* the table of status names: regex is /<phrase>|<abbr>/ig ("" is no
\* alternative)
rfcStatusHierarchy ==
  <<[name |-> <<"Internet", " ", "Standard">>,
     phrase |-> <<"internet", " ", "standard">>, abbr |-> "std"],
    [name |-> <<"Draft", " ", "Standard">>,
     phrase |-> <<"draft", " ", "standard">>, abbr |-> "ds"],
    [name |-> <<"Proposed", " ", "Standard">>,
     phrase |-> <<"proposed", " ", "standard">>, abbr |-> "ps"],
    [name |-> <<"Standards", " ", "Track">>,
     phrase |-> <<"standards", " ", "track">>, abbr |-> ""],
    [name |-> <<"Best", " ", "Current", " ", "Practice">>,
     phrase |-> <<"best", " ", "current", " ", "practice">>, abbr |-> "bcp"],
    [name |-> <<"Informational">>,
     phrase |-> <<"informational">>, abbr |-> "info"],
    [name |-> <<"Experimental">>,
     phrase |-> <<"experimental">>, abbr |-> "exp"],
    [name |-> <<"Historic">>,
     phrase |-> <<"historic">>, abbr |-> "hist"]>>

\* the offset of the letters abbr in the lower-case word, or -1: the words of
\* the input lines hold "ds" (standar-ds) and "info" only
AbbrevAt(abbr, word) ==
  CASE abbr = "" -> -1
    [] word = abbr -> 0
    [] abbr = "ds" /\ word = "standards" -> 7
    [] abbr = "info" /\ word = "informational" -> 0
    [] OTHER -> -1

\* status.regex.test(text) from lastIndex: the leftmost match at or after
\* lastIndex, the phrase before the abbreviation at the same place; a match
\* leaves lastIndex at its end, a failed test resets lastIndex to 0
StatusTest(status, text, lastIndex) ==
  LET t == IgnoreCase(text)
      n == Len(status.phrase)
      phrases == {[index |-> Offset(text, i),
                   end |-> Offset(text, i) + StrLen(status.phrase)] :
                    i \in {j \in 1..(Len(t) - n + 1) :
                             SubSeq(t, j, j + n - 1) = status.phrase}}
      abbrs == {[index |-> Offset(text, i) + AbbrevAt(status.abbr, t[i]),
                 end |-> Offset(text, i) + AbbrevAt(status.abbr, t[i])
                           + TokLen(status.abbr)] :
                  i \in {j \in 1..Len(t) :
                           AbbrevAt(status.abbr, t[j]) >= 0}}
      found == {m \in phrases \cup abbrs : m.index >= lastIndex}
      at == Min({m.index : m \in found})
  IN  IF found = {} THEN [matched |-> FALSE, lastIndex |-> 0]
      ELSE [matched |-> TRUE,
            lastIndex |-> Max({m.end : m \in {x \in found : x.index = at}})]

\* for (const status of table) if (status.regex.test(statusText)) return
\* status.name; return null (<<>>): the tests leave their lastIndex behind
StatusNameIn(table, statusText, lastIndexes) ==
  LET RECURSIVE Go(_, _)
      Go(k, li) ==
        IF k > Len(table) THEN [name |-> <<>>, lastIndexes |-> li]
        ELSE LET t == StatusTest(table[k], statusText, li[k])
                 after == [li EXCEPT ![k] = t.lastIndex]
             IN  IF t.matched
                 THEN [name |-> table[k].name, lastIndexes |-> after]
                 ELSE Go(k + 1, after)
  IN  Go(1, lastIndexes)

extractStatusName(statusText, lastIndexes) ==
  StatusNameIn(rfcStatusHierarchy, statusText, lastIndexes)

\* values.left === 'Internet-Draft'
IsInternetDraft(left) == left = <<"Internet", "-", "Draft">>

\* --> Document Kind
DocumentKind(kind, left) ==
  IF IsInternetDraft(left) THEN "draft"
  ELSE IF StartsWith(left, <<"Request", " ", "for", " ", "Comments">>)
  THEN "rfc"
  ELSE kind

\* the fields of a header line after the first, from its columns, the text
\* after the colon of the left one (raw) and the status name found in it
\* (clean): left gives the date, the kind, the RFC number, the intended
\* status and the category, and throws on "Obsoletes" without a colon
\* (obsoletesValues is undefined); right is an author name or an org
HeaderFields(st, idx, left, right, raw, clean) ==
  LET date == st.header.date \/ (left # <<>> /\ DATE_RE(left))
      throws == /\ left # <<>>
                /\ StartsWith(left, <<"Obsoletes">>)
                /\ ":" \notin Range(left)
      gap == idx > st.markers.header.lastAuthor + 1
      authors ==
        IF AUTHOR_NAME_RE(right)
        THEN Append(IF gap THEN SetOrgs(st.header.authors, <<>>)
                    ELSE st.header.authors,
                    Author(right))
        ELSE SetOrgs(st.header.authors, right)
      isRfc == StartsWith(left, <<"Request", " ", "for", " ", "Comments">>)
      isIntended == StartsWith(left, <<"Intended">>)
      isCategory == StartsWith(left, <<"Category">>)
      status == IF clean.name # <<>> THEN clean.name ELSE raw.text
      ended == [st EXCEPT
                  !.markers.header.end = idx,
                  !.header.date = date,
                  !.docKind = IF left = <<>> THEN @ ELSE DocumentKind(@, left),
                  !.header.rfcNumber =
                    IF isRfc /\ ~IsInternetDraft(left) THEN raw.text ELSE @,
                  !.header.intendedStatus = IF isIntended THEN status ELSE @,
                  !.header.category = IF isCategory THEN status ELSE @,
                  !.statusLastIndex =
                    IF isIntended \/ isCategory THEN clean.lastIndexes ELSE @]
  IN  IF throws
      THEN [st |-> st, flow |-> "throw", message |-> UndefinedIndexOf]
      ELSE IF right # <<>> /\ ~date
      THEN [st |-> [ended EXCEPT !.header.authors = authors,
                                 !.markers.header.lastAuthor = idx],
            flow |-> "next"]
      ELSE [st |-> ended, flow |-> "next"]

\* the values of a header line after the first, from its columns.  A status
\* that was never written is tested as the string "undefined".
HeaderValues(st, idx, left, right) ==
  HeaderFields(st, idx, left, right, AfterColon(left),
               extractStatusName(IF AfterColon(left).defined
                                 THEN AfterColon(left).text
                                 ELSE <<"undefined">>,
                                 st.statusLastIndex))

\* a header line after the first: the columns of the untrimmed line
HeaderLine(st, idx, line, trimmedLine) ==
  HeaderValues(st, idx,
               IF LINE_VALUES_EXTRACT_RE(line).matched
               THEN LINE_VALUES_EXTRACT_RE(line).left ELSE trimmedLine,
               IF LINE_VALUES_EXTRACT_RE(line).matched
               THEN LINE_VALUES_EXTRACT_RE(line).right ELSE <<>>)

\* Header, first pass: the first line, then the lines up to the title
HeaderBlock(st, idx, line, trimmedLine) ==
  IF st.markers.header.start = 0
  THEN IF LINE_VALUES_EXTRACT_RE(trimmedLine).matched
       THEN [st |-> [st EXCEPT !.markers.header.start = idx,
                               !.markers.header.end = idx,
                               !.markers.header.lastAuthor = idx,
                               !.header =
                                 FirstLine(@,
                                           LINE_VALUES_EXTRACT_RE(trimmedLine))],
             flow |-> "continue"]
       ELSE [st |-> st, flow |-> "throw", message |-> NullGroups]
  ELSE IF ~st.markers.header.closed
  THEN IF idx > st.markers.header.end + 1
       THEN [st |-> [st EXCEPT !.markers.header.closed = TRUE,
                               !.markers.title = idx,
                               !.title = trimmedLine],
             flow |-> "next"]
       ELSE HeaderLine(st, idx, line, trimmedLine)
  ELSE [st |-> st, flow |-> "next"]

\* the first line scanned after the title is the slug
SlugLine_NextScanned(st, idx, trimmedLine) ==
  IF st.title # <<>> /\ idx > st.markers.title /\ st.markers.slug = 0
  THEN [st |-> [st EXCEPT !.markers.slug = idx, !.slug = trimmedLine],
        flow |-> "continue"]
  ELSE [st |-> st, flow |-> "next"]

\* the line after the title is the slug
SlugLine(st, idx, trimmedLine) ==
  IF st.title # <<>> /\ idx = st.markers.title + 1
  THEN [st |-> [st EXCEPT !.markers.slug = idx, !.slug = trimmedLine],
        flow |-> "continue"]
  ELSE [st |-> st, flow |-> "next"]

\* trimmedLine.startsWith('Abstract') in place of the comparison
IsAbstractLine_Prefix(trimmedLine) == StartsWith(trimmedLine, <<"Abstract">>)

\* trimmedLine === 'Abstract'
IsAbstractLine(trimmedLine) == trimmedLine = <<"Abstract">>

\* Abstract
AbstractBlock(st, idx, line, trimmedLine) ==
  IF IsAbstractLine(trimmedLine)
  THEN [st EXCEPT !.markers.abstract.start = idx,
                  !.currentSection = "abstract",
                  !.content.abstract = Empty]
  ELSE IF st.markers.abstract.start # 0 /\ ~st.markers.abstract.closed
  THEN IF \/ StartsWith(trimmedLine, <<"Status", " ", "of">>)
          \/ ~StartsWith(line, <<" ", " ">>)
       THEN [st EXCEPT !.markers.abstract.end = idx - 1,
                       !.markers.abstract.closed = TRUE]
       ELSE st
  ELSE st

\* Header, second pass
HeaderBlockAgain(st, idx, trimmedLine) ==
  IF st.markers.header.start = 0
  THEN [st |-> [st EXCEPT !.markers.header.start = idx,
                          !.markers.header.end = idx,
                          !.markers.header.lastAuthor = idx,
                          !.header =
                            IF LINE_VALUES_EXTRACT_RE(trimmedLine).matched
                            THEN FirstLine(@,
                                           LINE_VALUES_EXTRACT_RE(trimmedLine))
                            ELSE @],
        flow |-> "continue"]
  ELSE IF ~st.markers.header.closed
  THEN IF idx > st.markers.header.end + 1
       THEN [st |-> [st EXCEPT !.markers.header.closed = TRUE,
                               !.markers.title = idx,
                               !.title = trimmedLine],
             flow |-> "continue"]
       ELSE [st |-> [st EXCEPT !.markers.header.end = idx],
             flow |-> "continue"]
  ELSE [st |-> st, flow |-> "next"]

\* a candidate section header
IsCandidateHeader(trimmedLine) ==
  SECTION_PATTERN(trimmedLine) \/ AUTHOR_SECTION_RE(trimmedLine)

\* if (currentSection && !markers[currentSection].closed) { end; closed }
CloseCurrent(st, end) ==
  IF st.currentSection # "null" /\ ~st.markers[st.currentSection].closed
  THEN [st EXCEPT !.markers[st.currentSection].end = end,
                  !.markers[st.currentSection].closed = TRUE]
  ELSE st

\* the opening of a section without data.content[currentSection] = []
OpenSection_NoBuffer(st, name, idx) ==
  [st EXCEPT !.currentSection = name, !.markers[name].start = idx]

\* if (matchedSection) { currentSection; start; data.content[...] = [] }
OpenSection(st, name, idx) ==
  [st EXCEPT !.currentSection = name,
             !.markers[name].start = idx,
             !.content[name] = Empty]

\* Section detection and content assignment
SectionDetection(st, idx, trimmedLine) ==
  IF IsCandidateHeader(trimmedLine)
  THEN LET matchedSection == sectionMatchers(trimmedLine)
           closed == CloseCurrent(st, idx - 1)
       IN  IF matchedSection # "null"
           THEN OpenSection(closed, matchedSection, idx)
           ELSE [closed EXCEPT !.currentSection = "null"]
  ELSE st

\* Add content to the current section
AddContent(st, trimmedLine) ==
  IF /\ st.currentSection # "null"
     /\ st.markers[st.currentSection].start # 0
     /\ ~st.markers[st.currentSection].closed
  THEN [st EXCEPT !.content[st.currentSection].lines = Append(@, trimmedLine)]
  ELSE st

\* the steps after the second pass of the header: the section detection and
\* the content of the open section
AfterHeaderAgain(k, idx, trimmedLine) ==
  IF k.flow # "next" THEN k
  ELSE [st |-> AddContent(SectionDetection(k.st, idx, trimmedLine),
                          trimmedLine),
        flow |-> "next"]

\* the steps after the slug: the abstract, then the second pass of the header
AfterSlug(g, idx, line, trimmedLine) ==
  IF g.flow # "next" THEN g
  ELSE AfterHeaderAgain(
         HeaderBlockAgain(AbstractBlock(g.st, idx, line, trimmedLine),
                          idx, trimmedLine),
         idx, trimmedLine)

\* the steps after the first pass of the header: the slug, then the rest
AfterHeader(h, idx, line, trimmedLine) ==
  IF h.flow # "next" THEN h
  ELSE AfterSlug(SlugLine(h.st, idx, trimmedLine), idx, line, trimmedLine)

\* the header and section steps of one non-blank line, in the order of the loop
LineSteps(st, idx, line, trimmedLine) ==
  AfterHeader(HeaderBlock(st, idx, line, trimmedLine), idx, line, trimmedLine)

\* the push without the test that guards it
PushNewRef_NoCheck(list, v, sub) ==
  Append(list, [value |-> v, subsection |-> sub])

\* if (!list.includes(v)) list.push(v)
PushNew(list, v) == IF v \in Range(list) THEN list ELSE Append(list, v)

\* if (!list.find((el) => el.value === v)) list.push({ value, subsection })
PushNewRef(list, v, sub) ==
  IF \E i \in DOMAIN list : list[i].value = v THEN list
  ELSE Append(list, [value |-> v, subsection |-> sub])

InitExtracted ==
  [nonReferenceSectionRfc |-> <<>>,
   referenceSectionRfc |-> <<>>,
   nonReferenceSectionDraftReferences |-> <<>>,
   referenceSectionDraftReferences |-> <<>>,
   obsoletesRfc |-> <<>>,
   updatesRfc |-> <<>>]

\* the two while loops over the citations of a line, with the current section
\* and sub-section as they are before the line's section detection
ExtractReferences(ee, trimmedLine, section, sub) ==
  LET RECURSIVE Rfcs(_, _)
      Rfcs(e, nums) ==
        IF nums = <<>> THEN e
        ELSE Rfcs(IF section # "references"
                  THEN [e EXCEPT !.nonReferenceSectionRfc =
                                   PushNew(@, Head(nums))]
                  ELSE [e EXCEPT !.referenceSectionRfc =
                                   PushNewRef(@, Head(nums), sub)],
                  Tail(nums))
      RECURSIVE Drafts(_, _)
      Drafts(e, names) ==
        IF names = <<>> THEN e
        ELSE Drafts(IF section # "references"
                    THEN [e EXCEPT !.nonReferenceSectionDraftReferences =
                                     PushNew(@, Head(names))]
                    ELSE [e EXCEPT !.referenceSectionDraftReferences =
                                     PushNewRef(@, Head(names), sub)],
                    Tail(names))
  IN  Drafts(Rfcs(ee, RFC_REFERENCE_RE(trimmedLine)),
             NON_RFC_REFERENCE_RE(trimmedLine))

\* Sub section detection
SubSectionDetection(cur, lastIndex, trimmedLine) ==
  LET t == SUBSECTION_PATTERN_test(trimmedLine, lastIndex)
  IN  [currentSubSection |->
         IF t.matched /\ ~TOC_PATTERN(trimmedLine)
         THEN subsectionMatchers(trimmedLine) ELSE cur,
       lastIndex |-> t.lastIndex]

\* the zero-based line number in the message
Catch_LineBefore(idx, message) ==
  [code |-> "TXT_PARSING_FAILED", line |-> idx - 1, message |-> message]

\* catch (err): new ValidationError('TXT_PARSING_FAILED',
\* `Error while parsing Line ${lineIdx}: ${err.message}`)
Catch(idx, message) ==
  [code |-> "TXT_PARSING_FAILED", line |-> idx, message |-> message]

NoError == [code |-> "none", line |-> 0, message |-> ""]

----------------------------------------------------------------------------
(* The boilerplate of RFC 2119 and RFC 8174 *)

\* rawText.replace(/\s+/g, ' ').trim(): the lines joined, every run of
\* whitespace (line ends and form feeds included) turned into one space
Normalize(d) ==
  LET RECURSIVE Flat(_)
      Flat(i) == IF i = 0 THEN <<>> ELSE Flat(i - 1) \o <<" ">> \o d[i]
      flat == Flat(Len(d))
      IsWs(t) == IsSpace(t) \/ t = "FF"
      RECURSIVE Col(_)
      Col(k) ==
        IF k = 0 THEN <<>>
        ELSE IF IsWs(flat[k]) /\ k > 1 /\ IsWs(flat[k - 1]) THEN Col(k - 1)
        ELSE Append(Col(k - 1), IF IsWs(flat[k]) THEN " " ELSE flat[k])
  IN  Trim(Col(Len(flat)))

\* the fragments of the boilerplate, each one token of the text: the quoted
\* key words are written without their quotation marks and commas
\* ("MUST to SHALL" is "MUST", "MUST NOT", "REQUIRED", "SHALL")
KeyWords == "The key words"

MustToShall == "MUST to SHALL"

ShallNotToRecommended == "SHALL NOT to RECOMMENDED"

NotRecommended == "NOT RECOMMENDED"

MayAndOptional == "MAY, and OPTIONAL"

InThisDocument == "in this document are to be interpreted as described in"

KeyWordsTitle == "Key words for use in RFCs to Indicate Requirement Levels"

Bcp14 == <<"BCP", " ", "1", "4">>

BracketRfc2119 == <<"[", "RFC", "2", "1", "1", "9", "]">>

BracketRfc8174 == <<"[", "RFC", "8", "1", "7", "4", "]">>

\* The key words "MUST", ... "RECOMMENDED",
KeyWordList ==
  <<KeyWords, " ", MustToShall, ",", " ", ShallNotToRecommended, ",">>

\*  ?("NOT RECOMMENDED", )?"MAY", and "OPTIONAL" in this document are to be
\* interpreted as described in
OptionalToDescribedIn ==
  {sp \o nr \o <<MayAndOptional, " ", InThisDocument>> :
     sp \in {<<" ">>, <<>>},
     nr \in {<<NotRecommended, ",", " ">>, <<>>}}

\* a regular expression as the set of the token sequences it matches
BOILERPLATE_PATTERNS ==
  [rfc2119 |->
     {KeyWordList \o mid \o bcp \o <<" ", "RFC">> \o sp
        \o <<"2", "1", "1", "9", t>> :
        mid \in OptionalToDescribedIn,
        bcp \in {<<" ">> \o Bcp14 \o <<",">>, <<>>},
        sp \in {<<" ">>, <<>>},
        t \in {".", ",", ";"}},
   rfc2119_alt |->
     {KeyWordList \o mid \o <<" ", KeyWordsTitle, " ">> \o BracketRfc2119 :
        mid \in OptionalToDescribedIn},
   rfc8174 |->
     {KeyWordList
        \o <<" ", NotRecommended, ",", " ", MayAndOptional, " ",
             InThisDocument, " ">>
        \o Bcp14 \o <<" ">> \o BracketRfc2119 \o <<" ">> \o BracketRfc8174}]

PatternNames == <<"rfc2119", "rfc2119_alt", "rfc8174">>

\* the first four parts of each group
CommonParts ==
  <<[alts |-> {<<KeyWords, " ">>}, global |-> TRUE],
    [alts |-> {<<MustToShall>>}, global |-> TRUE],
    [alts |-> {<<ShallNotToRecommended>>}, global |-> TRUE],
    [alts |-> {<<NotRecommended, ",", " ", MayAndOptional>>},
     global |-> TRUE]>>

\* /RFC ?2119[.,;]?/i
Rfc2119Part ==
  {<<"RFC">> \o sp \o <<"2", "1", "1", "9">> \o t :
     sp \in {<<" ">>, <<>>}, t \in {<<".">>, <<",">>, <<";">>, <<>>}}

BOILERPLATE_PARTS ==
  [rfc2119 |->
     CommonParts \o
       <<[alts |-> {<<InThisDocument>>}, global |-> TRUE],
         [alts |-> Rfc2119Part, global |-> FALSE]>>,
   rfc2119_alt |->
     CommonParts \o
       <<[alts |-> {<<InThisDocument>>}, global |-> TRUE],
         [alts |-> {<<KeyWordsTitle, " ">> \o BracketRfc2119},
          global |-> TRUE]>>,
   rfc8174 |->
     CommonParts \o
       <<[alts |-> {<<InThisDocument, " ">> \o Bcp14}, global |-> TRUE],
         [alts |-> {BracketRfc2119 \o <<" ">> \o BracketRfc8174},
          global |-> TRUE]>>]

\* the alternatives that match the text at token i
MatchesAt(alts, text, i) ==
  {a \in alts : i + Len(a) - 1 <= Len(text)
                  /\ SubSeq(text, i, i + Len(a) - 1) = a}

\* regex.test(text) of a global regular expression, from lastIndex: the
\* leftmost match at or after lastIndex, the longest alternative there; a
\* match leaves lastIndex at its end, a failed test resets lastIndex to 0
GlobalTest(alts, text, lastIndex) ==
  LET at == {i \in 1..Len(text) :
               /\ Offset(text, i) >= lastIndex
               /\ MatchesAt(alts, text, i) # {}}
      i0 == Min(at)
  IN  IF at = {} THEN [matched |-> FALSE, lastIndex |-> 0]
      ELSE [matched |-> TRUE,
            lastIndex |-> Offset(text, i0)
                            + Max({StrLen(a) : a \in MatchesAt(alts, text, i0)})]

\* part.test(text): a regular expression without the flag g reads the text
\* from its beginning and keeps lastIndex at 0
PartTest(part, text, lastIndex) ==
  IF part.global THEN GlobalTest(part.alts, text, lastIndex)
  ELSE [matched |-> GlobalTest(part.alts, text, 0).matched, lastIndex |-> 0]

\* the loop over the parts of one group: the parts are tested in order up to
\* the first that fails
GroupMatchCount(group, text, lastIndexes) ==
  LET RECURSIVE Go(_, _)
      Go(k, li) ==
        IF k > Len(group) THEN [matchCount |-> Len(group), lastIndexes |-> li]
        ELSE LET t == PartTest(group[k], text, li[k])
                 after == [li EXCEPT ![k] = t.lastIndex]
             IN  IF t.matched THEN Go(k + 1, after)
                 ELSE [matchCount |-> k - 1, lastIndexes |-> after]
  IN  Go(1, lastIndexes)

\* hasBoilerplateMatch(text, ...regexGroups): true at the first group whose
\* matchCount is above 0
hasBoilerplateMatch(text, lastIndexes) ==
  LET RECURSIVE Go(_, _)
      Go(g, li) ==
        IF g > Len(PatternNames) THEN [result |-> FALSE, lastIndexes |-> li]
        ELSE LET name == PatternNames[g]
                 c == GroupMatchCount(BOILERPLATE_PARTS[name], text, li[name])
                 after == [li EXCEPT ![name] = c.lastIndexes]
             IN  IF c.matchCount > 0
                 THEN [result |-> TRUE, lastIndexes |-> after]
                 ELSE Go(g + 1, after)
  IN  Go(1, lastIndexes)

\* data.boilerplate as the object literal builds it: rfc2119_alt is tested
\* only when rfc2119 fails
ExactFlags(text, lastIndexes) ==
  LET a == GlobalTest(BOILERPLATE_PATTERNS.rfc2119, text,
                      lastIndexes.rfc2119)
      b == IF a.matched
           THEN [matched |-> FALSE, lastIndex |-> lastIndexes.rfc2119_alt]
           ELSE GlobalTest(BOILERPLATE_PATTERNS.rfc2119_alt, text,
                           lastIndexes.rfc2119_alt)
      c == GlobalTest(BOILERPLATE_PATTERNS.rfc8174, text, lastIndexes.rfc8174)
  IN  [rfc2119 |-> a.matched \/ b.matched,
       rfc8174 |-> c.matched,
       lastIndexes |-> [rfc2119 |-> a.lastIndex,
                        rfc2119_alt |-> b.lastIndex,
                        rfc8174 |-> c.lastIndex]]

\* normalizedText.match(pattern), for each pattern: String.prototype.match
\* with a global regular expression starts at 0 and leaves lastIndex at 0
AfterMatchLoop(lastIndexes) == [n \in DOMAIN lastIndexes |-> 0]

\* the fragments alone
Similar_NoExclusion(has, rfc2119, rfc8174) == has

\* hasBoilerplateMatch(...) && !(data.boilerplate.rfc2119 ||
\* data.boilerplate.rfc8174)
Similar(has, rfc2119, rfc8174) == has /\ ~(rfc2119 \/ rfc8174)

InitBoilerplate ==
  [rfc2119 |-> FALSE, rfc8174 |-> FALSE, similar2119boilerplate |-> FALSE]

----------------------------------------------------------------------------
(* Input lines *)

HdrLine == <<"idr", " ", " ", "Zhang">>

BlankLine == <<>>

AbstractLine == <<"Abstract">>

AbstractColonLine == <<"Abstract", ":">>

IndentedLine == <<" ", " ", "text">>

StatusLine == <<" ", " ", "Status", " ", "of", " ", "Memo">>

IntroLine == <<"1", ".", " ", "Introduction">>

RefsLine == <<"2", ".", " ", "References">>

TocLine ==
  <<" ", " ", "1", ".", " ", "Introduction", " ", ".", ".", " ", "3">>

AuthorsLine == <<"Authors", "'", " ", "Addresses">>

CommentHdrLine == <<"/", "*", " ", "idr", " ", " ", "Zhang">>

HashLine == <<"#", " ", "text">>

DocTitleLine == <<"Title">>

DocSlugLine == <<"draft">>

NormLine ==
  <<"7", ".", "1", ".", " ", "Normative", " ", "References">>

InfoLine ==
  <<"7", ".", "2", ".", " ", "Informative", " ", "References">>

OtherSubLine == <<"7", ".", "3", ".", " ", "text">>

TocSubLine ==
  <<"7", ".", "1", ".", " ", "Normative", " ", "References", " ", ".", ".",
    " ", "5">>

CiteLine == <<" ", " ", "[", "RFC", "1", "]", " ", "text">>

ProseCiteLine ==
  <<" ", " ", "text", " ", "RFC", " ", "1", " ", "[", "I", "-", "D", ".",
    "idr", "]">>

NumberedCiteLine == <<" ", " ", "1", ".", " ", "RFC", " ", "1">>

FFLine == <<"FF">>

TwoFFLine == <<"FF", "FF">>

FFTextLine == <<"FF", "text">>

CommentLine == <<"/", "*", " ", "text", " ", "*", "/">>

BeginsLine == <<"<", "CODE", " ", "BEGINS", ">">>

LowerBeginsLine == <<"<", "code", " ", "begins", ">">>

EndsLine == <<"<", "CODE", " ", "ENDS", ">">>

AuthorHdrLine == <<"idr", " ", " ", "Z", ".", " ", "Zhang">>

WideHdrLine == <<"idr", " ", " ", " ", "Z", ".", " ", "Zhang">>

NoGapLine == <<"idr", " ", "Zhang">>

ObsoletesLine ==
  <<"Obsoletes", ":", " ", "1", " ", " ", "Z", ".", " ", "Zhang">>

ObsoletesNoColonLine ==
  <<"Obsoletes", " ", "1", " ", " ", "Z", ".", " ", "Zhang">>

OrgLine == <<" ", " ", " ", "text">>

DateLine == <<"May", " ", "2", "0", "2", "6", " ", " ", "text">>

IDLine == <<"Internet", "-", "Draft", " ", " ", "text">>

WideIDLine == <<"Internet", "-", "Draft", " ", " ", " ", "text">>

RfcLine ==
  <<"Request", " ", "for", " ", "Comments", ":", " ", "1", " ", " ", "text">>

WideRfcLine ==
  <<"Request", " ", "for", " ", "Comments", ":", " ", "1", " ", " ", " ",
    "text">>

IntendedLine ==
  <<"Intended", " ", "status", ":", " ", "Standards", " ", "Track", " ", " ",
    "text">>

IntendedTextLine ==
  <<"Intended", " ", "status", ":", " ", "text", " ", " ", "text">>

IntendedNoColonLine == <<"Intended", " ", "status", " ", " ", "text">>

CategoryLine == <<"Category", ":", " ", "Informational", " ", " ", "text">>

CategoryInfoLine == <<"Category", ":", " ", "info", " ", " ", "text">>

\* the boilerplate of RFC 2119
Exact2119Line ==
  KeyWordList
    \o <<" ", MayAndOptional, " ", InThisDocument, " ", "RFC", " ", "2", "1",
         "1", "9", ".">>

\* the boilerplate of RFC 8174
Exact8174Line ==
  KeyWordList
    \o <<" ", NotRecommended, ",", " ", MayAndOptional, " ", InThisDocument,
         " ">>
    \o Bcp14 \o <<" ">> \o BracketRfc2119 \o <<" ">> \o BracketRfc8174

\* the boilerplate with the title of RFC 2119
Exact2119AltLine ==
  KeyWordList
    \o <<" ", MayAndOptional, " ", InThisDocument, " ", KeyWordsTitle, " ">>
    \o BracketRfc2119

\* the sentence without its closing citation
NoCitationLine ==
  KeyWordList \o <<" ", MayAndOptional, " ", InThisDocument, ".">>

\* the list of key words alone
KeyWordListLine ==
  <<"text", " ", MustToShall, ",", " ", ShallNotToRecommended>>

\* the lines a document of the section scans is made of
SectionLines ==
  {HdrLine, BlankLine, AbstractLine, AbstractColonLine, IndentedLine,
   IntroLine, TocLine}

\* the first lines of a document of the body scans: the header line, a blank
\* line, the title and the slug
Preamble == <<HdrLine, BlankLine, DocTitleLine, DocSlugLine>>

\* the lines the rest of such a document is made of
BodyLines ==
  {HdrLine, BlankLine, AbstractLine, IndentedLine, StatusLine, IntroLine,
   RefsLine, TocLine}

Obsoletes12Line == <<"Obsoletes", ":", " ", "1", ",", " ", "2">>

Obsoletes123Line == <<"Obsoletes", ":", " ", "1", ",", " ", "2", "3">>

UpdatesLine == <<"Updates", ":", " ", "3">>

MentionLine ==
  <<" ", " ", "text", " ", "obsoletes", " ", "RFC", " ", "1">>

\* the lines a document of the repeated calls is made of
CallLines ==
  {HdrLine, CommentHdrLine, HashLine, BlankLine, AuthorsLine, RefsLine}

----------------------------------------------------------------------------
(* The lists of the RFCs a document obsoletes and updates *)

\* the tokens of l in the class S that follow position k
CountFrom(l, k, S) ==
  CountLeading(Drop(l, k), {t \in Range(l) : LowerTok(t) \in S})

\* ((?:rfc\s*)?[0-9]+(?:,|\s|and)*\s*)+ of OBSOLETES_RE and UPDATES_RE read
\* from position k of text: the position of the last token matched (k - 1
\* when no number is there) and the numbers found in the text matched by
\* /\b(RFC\s*[0-9]+|[0-9]+)\b/gi, without their prefix
RECURSIVE NumberList(_, _)
NumberList(text, k) ==
  LET rfc == k <= Len(text) /\ LowerTok(text[k]) = "rfc"
      b == IF rfc THEN k + 1 + CountFrom(text, k, Spaces) ELSE k
      n == CountFrom(text, b - 1, Digits)
      e == b + n + CountFrom(text, b + n - 1, {",", " ", "and"})
      rest == NumberList(text, e)
  IN  IF n = 0 THEN [end |-> k - 1, numbers |-> <<>>]
      ELSE [end |-> Max({e - 1, rest.end}),
            numbers |-> <<SubSeq(text, b, b + n - 1)>> \o rest.numbers]

\* extractRfcNumbers(text, regex).plainNumbers, for the regular expression
\* whose first words are the given ones: OBSOLETES_RE,
\* /(?:obsoletes|replaces)\s*:\s*((?:rfc\s*)?[0-9]+(?:,|\s|and)*\s*)+/gi,
\* or UPDATES_RE, /updates\s*:\s*(...)+/gi
extractRfcNumbers(text, words) ==
  LET RECURSIVE From(_)
      From(i) ==
        IF i > Len(text) THEN <<>>
        ELSE
          LET c == i + 1 + CountFrom(text, i, Spaces)
              k == c + 1 + CountFrom(text, c, Spaces)
              list == NumberList(text, k)
          IN  IF /\ LowerTok(text[i]) \in words
                 /\ c <= Len(text) /\ text[c] = ":"
                 /\ list.numbers # <<>>
              THEN list.numbers \o From(list.end + 1)
              ELSE From(i + 1)
  IN  From(1)

----------------------------------------------------------------------------
(* The downref registry *)

\* let cachedDownrefRegistry = null
NullRegistry == [isNull |-> TRUE, references |-> {}]

\* an anchor of the page of the registry: the number in its address
\* /doc/rfcN/ (<<>> when the address is that of a draft) and its text
RfcAnchor == [rfc |-> <<"1">>, text |-> <<"text">>]

DraftAnchor == [rfc |-> <<>>, text |-> <<"draft">>]

\* the pages the data tracker may answer with
DownrefPages == {{}, {RfcAnchor}, {RfcAnchor, DraftAnchor}}

\* the two loops over the anchors of the page: RFC n for each address of an
\* RFC, and the trimmed text of every anchor
RegistryOf(html) ==
  {<<"RFC", " ">> \o a.rfc : a \in {b \in html : b.rfc # <<>>}}
    \cup {Trim(a.text) : a \in html}

\* new RegExp('\\b' + ref + '\\b', 'i').test(downref)
refRegex(ref, downref) ==
  LET r == IgnoreCase(ref)
      d == IgnoreCase(downref)
      n == Len(r)
  IN  \E i \in 1..(Len(d) - n + 1) :
        /\ SubSeq(d, i, i + n - 1) = r
        /\ IsWordChar(r[1]) # (i > 1 /\ IsWordChar(d[i - 1]))
        /\ IsWordChar(r[n]) # (i + n <= Len(d) /\ IsWordChar(d[i + n]))

\* references.forEach: the references one entry of the registry matches
FoundDownrefs(references, downrefRegistry) ==
  LET Found(ref) == \E downref \in downrefRegistry : refRegex(ref, downref)
  IN  SelectSeq(references, Found)

\* a call of checkReferencesInDownrefs that has not begun
IdleCaller ==
  [pc |-> "idle", references |-> <<>>, downrefRegistry |-> {},
   served |-> "none", foundDownrefs |-> <<>>]

\* the lists of references the callers pass
DownrefLists ==
  {<<<<"RFC", " ", "1">>>>, <<<<"draft">>>>,
   <<<<"rfc", " ", "1">>, <<"RFC", " ", "2">>>>}

----------------------------------------------------------------------------
(* The validators *)

\* MODES
Modes == {"NORMAL", "FORGIVE_CHECKLIST", "SUBMISSION"}

\* what fetchRemoteRfcInfo(ref) may resolve to: null, an entry without a
\* status, or an entry with a status that is current, obsoleted or updated
RfcInfoKinds == {"null", "nostatus", "current", "obsoleted", "updated"}

\* the numbers of the RFCs the documents name
RfcNumbers == {<<"1">>, <<"2">>, <<"2", "3">>, <<"3">>}

\* the answers of rfc-editor.org during one call of a validator: the same
\* kind of answer for every RFC, or RFC 1 alone is known
RfcInfos ==
  {[n \in RfcNumbers |-> kind] : kind \in RfcInfoKinds}
    \cup {[n \in RfcNumbers |-> IF n = <<"1">> THEN "current" ELSE "null"]}

\* RFC_NUM_RE.test(ref) with RFC_NUM_RE = /[0-9]+/g: the search begins at
\* lastIndex, which becomes the end of the digits found, or 0
RFC_NUM_RE_test(ref, lastIndex) ==
  LET from == {k \in (lastIndex + 1)..Len(ref) : IsDigit(ref[k])}
      first == Min(from)
  IN  IF from = {} THEN [matched |-> FALSE, lastIndex |-> 0]
      ELSE [matched |-> TRUE,
            lastIndex |-> first - 1 + CountFrom(ref, first - 1, Digits)]

\* doc.data.content.abstract.join(' ')
JoinLines(lines) ==
  LET RECURSIVE Flat(_)
      Flat(i) == IF i = 0 THEN <<>>
                 ELSE IF i = 1 THEN lines[1]
                 ELSE Flat(i - 1) \o <<" ">> \o lines[i]
  IN  Flat(Len(lines))

\* whether the token at position i of text is, but for its case, in S
TokenAt(text, i, S) == i <= Len(text) /\ LowerTok(text[i]) \in S

\* (?:\[?rfcs? ?)? at position k: the number of tokens it takes
PrefixLen(text, k) ==
  LET Rfc(i) == TokenAt(text, i, {"rfc", "rfcs"})
  IN  IF TokenAt(text, k, {"["}) /\ Rfc(k + 1)
      THEN IF TokenAt(text, k + 2, {" "}) THEN 3 ELSE 2
      ELSE IF Rfc(k)
      THEN IF TokenAt(text, k + 1, {" "}) THEN 2 ELSE 1
      ELSE 0

\* (?:, | and )? at position c: the number of tokens it takes
SeparatorLen(text, c) ==
  IF TokenAt(text, c, {","}) /\ TokenAt(text, c + 1, {" "}) THEN 2
  ELSE IF /\ TokenAt(text, c, {" "})
          /\ TokenAt(text, c + 1, {"and"})
          /\ TokenAt(text, c + 2, {" "})
  THEN 3 ELSE 0

\* \]?(?:, | and )? at position c: the number of tokens it takes
SuffixLen(text, c) ==
  IF TokenAt(text, c, {"]"}) THEN 1 + SeparatorLen(text, c + 1)
  ELSE SeparatorLen(text, c)

\* ((?:\[?rfcs? ?)?[0-9]+\]?(?:, | and )?)+ of the OBSOLETES_RE and the
\* UPDATES_RE of the validator read from position k of the abstract: the
\* position of the last token matched and the numbers match(RFC_NUM_RE)
\* finds in the text matched
RECURSIVE MentionList(_, _)
MentionList(text, k) ==
  LET b == k + PrefixLen(text, k)
      n == CountFrom(text, b - 1, Digits)
      e == b + n + SuffixLen(text, b + n)
      rest == MentionList(text, e)
  IN  IF n = 0 THEN [end |-> k - 1, numbers |-> <<>>]
      ELSE [end |-> Max({e - 1, rest.end}),
            numbers |-> <<SubSeq(text, b, b + n - 1)>> \o rest.numbers]

\* [...abstract.matchAll(regex)].flatMap(match =>
\* match[0].match(RFC_NUM_RE) || []), for the regular expression whose first
\* words are the given ones
Mentioned(abstract, words) ==
  LET RECURSIVE From(_)
      From(i) ==
        IF i > Len(abstract) THEN <<>>
        ELSE
          LET list == MentionList(abstract, i + 2)
          IN  IF /\ LowerTok(abstract[i]) \in words
                 /\ i + 1 <= Len(abstract) /\ abstract[i + 1] = " "
                 /\ list.numbers # <<>>
              THEN list.numbers \o From(list.end + 1)
              ELSE From(i + 1)
  IN  From(1)

\* list.filter(rfc => !other.includes(rfc)), each with a comment of the code
NotIn(list, other, code) ==
  LET Missing(rfc) == rfc \notin Range(other)
      left == SelectSeq(list, Missing)
  IN  [i \in DOMAIN left |-> [code |-> code, ref |-> left[i]]]

\* for (const ref of list): a lookup for each entry RFC_NUM_RE.test accepts,
\* and a warning when nothing is found, or when the RFC is obsoleted or,
\* for the updates, updated already
RECURSIVE LookupLoop(_, _, _, _)
LookupLoop(st, list, rfcInfo, codes) ==
  IF list = <<>> THEN st
  ELSE
    LET ref == Head(list)
        t == RFC_NUM_RE_test(ref, st.lastIndex)
        info == rfcInfo[ref]
        code == IF info = "null" THEN codes.notFound
                ELSE IF info = "obsoleted" THEN codes.obsoleted
                ELSE IF info = "updated" THEN codes.updated
                ELSE "none"
    IN  LookupLoop(
          IF t.matched
          THEN [lastIndex |-> t.lastIndex,
                lookups |-> Append(st.lookups, ref),
                result |-> IF code = "none" THEN st.result
                           ELSE Append(st.result,
                                       [code |-> code, ref |-> ref])]
          ELSE [st EXCEPT !.lastIndex = t.lastIndex],
          Tail(list), rfcInfo, codes)

ObsoletesCodes ==
  [notFound |-> "OBSOLETES_RFC_NOT_FOUND",
   obsoleted |-> "OBSOLETES_OSOLETED_RFC",
   updated |-> "none"]

UpdatesCodes ==
  [notFound |-> "UPDATES_RFC_NOT_FOUND",
   obsoleted |-> "UPDATES_OSOLETED_RFC",
   updated |-> "UPDATES_UPDATED_RFC"]

\* the comparison of the lists of the record (listed) with the mentions of
\* the abstract (mentioned), then the lookups when online: the lookups made,
\* the diagnostics and RFC_NUM_RE.lastIndex.  String.prototype.match sets
\* the lastIndex of a global regular expression to 0.
CompareAndLookup(listed, mentioned, offline, rfcInfo, lastIndex) ==
  LET comments ==
        NotIn(listed.obsoletesRfc, mentioned.obsoletesRfc,
              "OBSOLETES_NOT_IN_ABSTRACT")
        \o NotIn(listed.updatesRfc, mentioned.updatesRfc,
                 "UPDATES_NOT_IN_ABSTRACT")
        \o NotIn(mentioned.obsoletesRfc, listed.obsoletesRfc,
                 "MENTIONED_NOT_IN_OBSOLETES")
        \o NotIn(mentioned.updatesRfc, listed.updatesRfc,
                 "MENTIONED_NOT_IN_UPDATES")
      st == [lastIndex |-> IF mentioned.obsoletesRfc \o mentioned.updatesRfc
                                = <<>>
                           THEN lastIndex ELSE 0,
             lookups |-> <<>>,
             result |-> comments]
  IN  IF offline THEN st
      ELSE LookupLoop(LookupLoop(st, listed.obsoletesRfc, rfcInfo,
                                 ObsoletesCodes),
                      listed.updatesRfc, rfcInfo, UpdatesCodes)

\* the case 'txt' of validateObsoleteUpdateRef on a record whose abstract
\* is an array
ObsoleteUpdateRef(record, offline, rfcInfo, lastIndex) ==
  CompareAndLookup(
    [obsoletesRfc |-> record.data.extractedElements.obsoletesRfc,
     updatesRfc |-> record.data.extractedElements.updatesRfc],
    [obsoletesRfc |->
       Mentioned(JoinLines(record.data.content.abstract.lines),
                 {"obsoletes", "replaces"}),
     updatesRfc |->
       Mentioned(JoinLines(record.data.content.abstract.lines),
                 {"updates"})],
    offline, rfcInfo, lastIndex)

\* the case 'txt' of validateUnclassifiedReferences: the lookups made and
\* the diagnostics
UnclassifiedReferences(record, mode, rfcInfo) ==
  LET Unclassified(el) == el.subsection = "unclassified_references"
      picked == SelectSeq(record.data.extractedElements.referenceSectionRfc,
                          Unclassified)
      unclassifiedReferences == [i \in DOMAIN picked |-> picked[i].value]
      RECURSIVE Loop(_, _)
      Loop(result, list) ==
        IF list = <<>> THEN result
        ELSE
          LET ref == Head(list)
              info == rfcInfo[ref]
          IN  Loop(IF info \in {"null", "nostatus"}
                   THEN Append(result,
                               [code |-> "UNDEFINED_STATUS", ref |-> ref,
                                level |-> "comment"])
                   ELSE IF info = "obsoleted"
                   THEN Append(result,
                               [code |-> "OBSOLETE_UNCLASSIFIED_REFERENCE",
                                ref |-> ref,
                                level |-> IF mode = "NORMAL" THEN "error"
                                          ELSE "warning"])
                   ELSE result,
                   Tail(list))
  IN  [lookups |-> unclassifiedReferences,
       result |-> Loop(<<>>, unclassifiedReferences)]

\* no validator has been called
NoValidation ==
  [fn |-> "none", mode |-> "NORMAL", offline |-> FALSE, thrown |-> "none",
   lookups |-> <<>>, result |-> <<>>]

----------------------------------------------------------------------------
(* Actions *)

Init ==
  /\ pc = "idle"
  /\ doc = <<>>
  /\ lineIdx = 0
  /\ markers = InitMarkers
  /\ content = InitContent
  /\ title = <<>>
  /\ slug = <<>>
  /\ currentSection = "null"
  /\ inCodeBlock = FALSE
  /\ inlineCode = <<>>
  /\ pageCount = 1
  /\ currentSubSection = "null"
  /\ header = InitHeader
  /\ docKind = "null"
  /\ statusLastIndex = [k \in DOMAIN rfcStatusHierarchy |-> 0]
  /\ rawText = <<>>
  /\ boilerplate = InitBoilerplate
  /\ patternsLastIndex = [n \in Range(PatternNames) |-> 0]
  /\ partsLastIndex =
       [n \in Range(PatternNames) |-> [k \in 1..6 |-> 0]]
  /\ extractedElements = InitExtracted
  /\ swept = <<>>
  /\ error = NoError
  /\ inlineCodeLastIndex = 0
  /\ subsectionLastIndex = 0
  /\ calls = 0
  /\ returned = <<>>
  /\ cachedDownrefRegistry = NullRegistry
  /\ requests = 0
  /\ fetchFailed = FALSE
  /\ callers = [c \in 1..MaxCallers |-> IdleCaller]
  /\ rfcNumLastIndex = 0
  /\ validation = NoValidation
  /\ validations = 0

\* a call of parse(rawText, filename) up to the loop over the lines: a fresh
\* record and fresh locals, the exact boilerplate flags and the flag of the
\* similar boilerplate; the module-level regular expressions are as the
\* earlier calls left them.  d is the document when it is chosen with the
\* call, and <<>> when its lines, which then hold no fragment of the
\* boilerplate, are chosen as the loop reads them.
ParseDoc(d) ==
  \E normalizedText \in {Normalize(d)} :
  \E exact \in {ExactFlags(normalizedText, patternsLastIndex)},
     has \in {hasBoilerplateMatch(normalizedText, partsLastIndex)} :
      /\ pc \in {"idle", "done", "failed"}
      /\ pc' = "scan"
      /\ calls' = calls + 1
      /\ rawText' = d
      /\ boilerplate' =
           [rfc2119 |-> exact.rfc2119,
            rfc8174 |-> exact.rfc8174,
            similar2119boilerplate |->
              Similar(has.result, exact.rfc2119, exact.rfc8174)]
      /\ patternsLastIndex' = AfterMatchLoop(exact.lastIndexes)
      /\ partsLastIndex' = has.lastIndexes
      /\ doc' = <<>>
      /\ lineIdx' = 0
      /\ markers' = InitMarkers
      /\ content' = InitContent
      /\ title' = <<>>
      /\ slug' = <<>>
      /\ currentSection' = "null"
      /\ inCodeBlock' = FALSE
      /\ inlineCode' = <<>>
      /\ pageCount' = 1
      /\ currentSubSection' = "null"
      /\ header' = InitHeader
      /\ docKind' = "null"
      /\ extractedElements' =
           [InitExtracted EXCEPT
              !.obsoletesRfc =
                extractRfcNumbers(normalizedText, {"obsoletes", "replaces"}),
              !.updatesRfc = extractRfcNumbers(normalizedText, {"updates"})]
      /\ swept' = <<>>
      /\ error' = NoError
      /\ UNCHANGED <<inlineCodeLastIndex, subsectionLastIndex,
                     statusLastIndex, returned, downrefVars, validatorVars>>

\* a call of parse() on a document whose lines are chosen as they are read
Parse == ParseDoc(<<>>)

\* the markers compared without the flag i
CodeBlock_CaseSensitive(was, trimmedLine) ==
  LET begun == IF Contains(trimmedLine, <<"<", "CODE", " ", "BEGINS", ">">>)
               THEN TRUE ELSE was
  IN  IF Contains(trimmedLine, <<"<", "CODE", " ", "ENDS", ">">>)
      THEN FALSE ELSE begun

\* Code block detection
CodeBlock(was, trimmedLine) ==
  LET t == IgnoreCase(trimmedLine)
      begun == IF Contains(t, <<"<", "code", " ", "begins", ">">>)
               THEN TRUE ELSE was
  IN  IF Contains(t, <<"<", "code", " ", "ends", ">">>) THEN FALSE ELSE begun

\* one iteration of for (const line of rawText.split('\n'))
ScanLine(line) ==
  /\ pc = "scan"
  /\ \E idx \in {lineIdx + 1}, trimmedLine \in {Trim(line)} :
     \E inCode \in {CodeBlock(inCodeBlock, trimmedLine)},
        match \in {INLINE_CODE_FORMAT_exec(line, inlineCodeLastIndex)},
        r \in {LineSteps(Scan, idx, line, trimmedLine)},
        sub \in {SubSectionDetection(currentSubSection, subsectionLastIndex,
                                     trimmedLine)} :
         /\ lineIdx' = idx
         /\ doc' = Append(doc, line)
         /\ UNCHANGED <<calls, returned, rawText, patternsLastIndex,
                        partsLastIndex, downrefVars, validatorVars>>
         /\ IF Contains(line, <<"FF">>)
            THEN \* Page Break
                 /\ pageCount' = pageCount + 1
                 /\ UNCHANGED <<pc, markers, content, title, slug,
                                currentSection, currentSubSection,
                                inCodeBlock, inlineCode, header, docKind,
                                statusLastIndex, boilerplate,
                                extractedElements, swept, error,
                                inlineCodeLastIndex, subsectionLastIndex>>
            ELSE IF trimmedLine = <<>>
            THEN \* Empty line
                 UNCHANGED <<pc, markers, content, title, slug, currentSection,
                             currentSubSection, inCodeBlock, inlineCode,
                             header, docKind, statusLastIndex, boilerplate,
                             extractedElements, swept, error,
                             inlineCodeLastIndex, subsectionLastIndex,
                             pageCount>>
            ELSE /\ inCodeBlock' = inCode
                 /\ inlineCodeLastIndex' =
                      IF inCode THEN inlineCodeLastIndex ELSE match.lastIndex
                 /\ inlineCode' =
                      IF ~inCode /\ match.found
                      THEN Append(inlineCode,
                                  [line |-> idx, pos |-> match.index + 1])
                      ELSE inlineCode
                 /\ extractedElements' =
                      ExtractReferences(extractedElements, trimmedLine,
                                        currentSection, currentSubSection)
                 /\ swept' = Append(swept, idx)
                 /\ pc' = IF r.flow = "throw" THEN "failed" ELSE "scan"
                 /\ error' = IF r.flow = "throw" THEN Catch(idx, r.message)
                             ELSE error
                 /\ markers' = r.st.markers
                 /\ content' = r.st.content
                 /\ title' = r.st.title
                 /\ slug' = r.st.slug
                 /\ header' = r.st.header
                 /\ docKind' = r.st.docKind
                 /\ statusLastIndex' = r.st.statusLastIndex
                 /\ UNCHANGED boilerplate
                 /\ currentSection' = r.st.currentSection
                 /\ currentSubSection' =
                      IF r.flow = "next" THEN sub.currentSubSection
                      ELSE currentSubSection
                 /\ subsectionLastIndex' =
                      IF r.flow = "next" THEN sub.lastIndex
                      ELSE subsectionLastIndex
                 /\ UNCHANGED pageCount

\* what the caller receives: body and data
Record(m) ==
  [body |-> doc,
   docKind |-> docKind,
   data |-> [markers |-> m, content |-> content, title |-> title,
             slug |-> slug, pageCount |-> pageCount, header |-> header,
             boilerplate |-> boilerplate,
             extractedElements |-> extractedElements,
             possibleIssues |-> [inlineCode |-> inlineCode]]]

\* the input is exhausted: close the last section and return the record
Finish ==
  /\ pc = "scan"
  /\ lineIdx >= 1
  /\ pc' = "done"
  /\ markers' = CloseCurrent(Scan, lineIdx).markers
  /\ returned' = Append(returned, Record(markers'))
  /\ UNCHANGED <<doc, lineIdx, content, title, slug, currentSection,
                 currentSubSection, inCodeBlock, inlineCode, pageCount,
                 header, docKind, statusLastIndex, extractedElements, swept,
                 error, inlineCodeLastIndex, subsectionLastIndex, calls,
                 rawText, boilerplate, patternsLastIndex, partsLastIndex,
                 downrefVars, validatorVars>>

\* one call of parse() in a freshly loaded module
Next ==
  \/ calls = 0 /\ Parse
  \/ \E line \in SectionLines : lineIdx < MaxLines /\ ScanLine(line)
  \/ Finish

Spec == Init /\ [][Next]_vars

\* one call of parse() on a document that begins with Preamble
NextBody ==
  \/ calls = 0 /\ Parse
  \/ \E line \in IF lineIdx < Len(Preamble) THEN {Preamble[lineIdx + 1]}
                  ELSE BodyLines :
       lineIdx < Len(Preamble) + MaxBodyLines /\ ScanLine(line)
  \/ Finish

SpecBody == Init /\ [][NextBody]_vars

\* several calls of parse(), one after the other, in one process
NextCalls ==
  \/ calls < MaxCalls /\ Parse
  \/ \E line \in CallLines : lineIdx < MaxCallLines /\ ScanLine(line)
  \/ Finish

SpecCalls == Init /\ [][NextCalls]_vars

\* the lines that follow Preamble in a document of the reference scans
RefLines ==
  {RefsLine, NormLine, InfoLine, OtherSubLine, TocSubLine, CiteLine,
   ProseCiteLine, NumberedCiteLine}

\* one call of parse() on a document that begins with Preamble and goes on
\* with sub-section headers and citations
NextRefs ==
  \/ calls = 0 /\ Parse
  \/ \E line \in IF lineIdx < Len(Preamble) THEN {Preamble[lineIdx + 1]}
                  ELSE RefLines :
       lineIdx < Len(Preamble) + MaxRefLines /\ ScanLine(line)
  \/ Finish

SpecRefs == Init /\ [][NextRefs]_vars

\* the lines that follow the header line in a document of the code scans
CodeLines ==
  {BlankLine, FFLine, TwoFFLine, FFTextLine, CommentLine, HashLine,
   BeginsLine, LowerBeginsLine, EndsLine, IndentedLine}

\* one call of parse() on a document that begins with the header line and
\* goes on with page breaks, code fences and comments
NextCode ==
  \/ calls = 0 /\ Parse
  \/ \E line \in IF lineIdx = 0 THEN {HdrLine} ELSE CodeLines :
       lineIdx < 1 + MaxCodeLines /\ ScanLine(line)
  \/ Finish

SpecCode == Init /\ [][NextCode]_vars

\* the lines a document of the header scans is made of
HeaderLines ==
  {BlankLine, HdrLine, AuthorHdrLine, WideHdrLine, NoGapLine, ObsoletesLine,
   ObsoletesNoColonLine, OrgLine, DateLine, DocTitleLine}

\* one call of parse() on the first lines of a document
NextHeader ==
  \/ calls = 0 /\ Parse
  \/ \E line \in HeaderLines : lineIdx < MaxHeaderLines /\ ScanLine(line)
  \/ Finish

SpecHeader == Init /\ [][NextHeader]_vars

\* the lines that follow the first line in a document of the kind scans
KindLines ==
  {BlankLine, DocTitleLine, IDLine, WideIDLine, RfcLine, WideRfcLine,
   IntendedLine, IntendedTextLine, IntendedNoColonLine, CategoryLine,
   CategoryInfoLine}

\* one call of parse() on a document whose header tells its kind and status
NextKind ==
  \/ calls = 0 /\ Parse
  \/ \E line \in IF lineIdx = 0 THEN {AuthorHdrLine} ELSE KindLines :
       lineIdx < 1 + MaxKindLines /\ ScanLine(line)
  \/ Finish

SpecKind == Init /\ [][NextKind]_vars

\* the lines that follow Preamble and IntroLine in a document of the
\* boilerplate scans
BoilerLines ==
  {IndentedLine, Exact2119Line, Exact8174Line, Exact2119AltLine,
   NoCitationLine, KeyWordListLine}

BoilerDocs == {Preamble \o <<IntroLine, l>> : l \in BoilerLines}

\* several calls of parse() in one process, each on a whole document
NextBoiler ==
  \/ \E d \in BoilerDocs : calls < MaxBoilerCalls /\ ParseDoc(d)
  \/ \E line \in IF lineIdx < Len(rawText) THEN {rawText[lineIdx + 1]}
                  ELSE {} :
       ScanLine(line)
  \/ lineIdx = Len(rawText) /\ Finish

SpecBoiler == Init /\ [][NextBoiler]_vars

\* checkReferencesInDownrefs(references) up to its await:
\* fetchDownrefRegistry() returns the cached set, or sends the request
checkReferencesInDownrefs(c, references) ==
  /\ callers[c].pc = "idle"
  /\ IF ~cachedDownrefRegistry.isNull
     THEN /\ callers' =
               [callers EXCEPT ![c] =
                  [@ EXCEPT !.pc = "resume",
                            !.references = references,
                            !.downrefRegistry =
                              cachedDownrefRegistry.references,
                            !.served = "cache"]]
          /\ UNCHANGED requests
     ELSE /\ callers' =
               [callers EXCEPT ![c] =
                  [@ EXCEPT !.pc = "fetch", !.references = references]]
          /\ requests' = requests + 1
  /\ UNCHANGED <<cachedDownrefRegistry, fetchFailed, parserVars,
                 validatorVars>>

\* await fetch(DOWNREF_REGISTRY_URL, ...) settles: the response, or the
\* error the catch wraps
FetchSettles(c, ok) ==
  /\ callers[c].pc = "fetch"
  /\ callers' = [callers EXCEPT ![c].pc = IF ok THEN "text" ELSE "failed"]
  /\ fetchFailed' = (fetchFailed \/ ~ok)
  /\ UNCHANGED <<cachedDownrefRegistry, requests, parserVars,
                 validatorVars>>

\* await response.text() settles: the set of the references of the page is
\* built, stored in the cache and returned; or the catch wraps the error
TextSettles(c, ok, html) ==
  /\ callers[c].pc = "text"
  /\ IF ok
     THEN /\ cachedDownrefRegistry' =
               [isNull |-> FALSE, references |-> RegistryOf(html)]
          /\ callers' =
               [callers EXCEPT ![c] =
                  [@ EXCEPT !.pc = "resume",
                            !.downrefRegistry = RegistryOf(html),
                            !.served = "network"]]
          /\ UNCHANGED fetchFailed
     ELSE /\ callers' = [callers EXCEPT ![c].pc = "failed"]
          /\ fetchFailed' = TRUE
          /\ UNCHANGED cachedDownrefRegistry
  /\ UNCHANGED <<requests, parserVars, validatorVars>>

\* checkReferencesInDownrefs after its await: the references found
Resume(c) ==
  /\ callers[c].pc = "resume"
  /\ callers' =
       [callers EXCEPT ![c] =
          [@ EXCEPT !.pc = "done",
                    !.foundDownrefs =
                      FoundDownrefs(callers[c].references,
                                    callers[c].downrefRegistry)]]
  /\ UNCHANGED <<cachedDownrefRegistry, requests, fetchFailed, parserVars,
                 validatorVars>>

\* the calls of checkReferencesInDownrefs of one process, interleaved at
\* their awaits
NextDownref ==
  \/ \E c \in 1..MaxCallers, references \in DownrefLists :
       checkReferencesInDownrefs(c, references)
  \/ \E c \in 1..MaxCallers, ok \in BOOLEAN : FetchSettles(c, ok)
  \/ \E c \in 1..MaxCallers, ok \in BOOLEAN, html \in DownrefPages :
       TextSettles(c, ok, html)
  \/ \E c \in 1..MaxCallers : Resume(c)

SpecDownref == Init /\ [][NextDownref]_vars

\* a call of validateObsoleteUpdateRef(doc, { mode, offline }) on the record
\* parse() returned last, with the answers of rfc-editor.org
validateObsoleteUpdateRef(mode, offline, rfcInfo) ==
  /\ pc = "done"
  /\ returned # <<>>
  /\ validations' = validations + 1
  /\ \E record \in {returned[Len(returned)]},
        call \in {[fn |-> "validateObsoleteUpdateRef", mode |-> mode,
                   offline |-> offline, thrown |-> "none",
                   lookups |-> <<>>, result |-> <<>>]} :
       IF mode = "SUBMISSION"
       THEN /\ validation' = call
            /\ UNCHANGED rfcNumLastIndex
       ELSE IF record.data.content.abstract.isNull
       THEN \* null.join(' ')
            /\ validation' = [call EXCEPT !.thrown = "TypeError"]
            /\ UNCHANGED rfcNumLastIndex
       ELSE \E r \in {ObsoleteUpdateRef(record, offline, rfcInfo,
                                        rfcNumLastIndex)} :
              /\ validation' = [call EXCEPT !.lookups = r.lookups,
                                            !.result = r.result]
              /\ rfcNumLastIndex' = r.lastIndex
  /\ UNCHANGED <<parserVars, downrefVars>>

\* a call of validateUnclassifiedReferences(doc, { mode }) on the record
\* parse() returned last, with the answers of rfc-editor.org
validateUnclassifiedReferences(mode, rfcInfo) ==
  /\ pc = "done"
  /\ returned # <<>>
  /\ validations' = validations + 1
  /\ \E r \in {UnclassifiedReferences(returned[Len(returned)], mode,
                                       rfcInfo)} :
       validation' =
         [fn |-> "validateUnclassifiedReferences", mode |-> mode,
          offline |-> FALSE, thrown |-> "none",
          lookups |-> IF mode = "SUBMISSION" THEN <<>> ELSE r.lookups,
          result |-> IF mode = "SUBMISSION" THEN <<>> ELSE r.result]
  /\ UNCHANGED <<rfcNumLastIndex, parserVars, downrefVars>>

\* the documents of the validations: a header with or without the lists, an
\* abstract or none, references without a sub-section or none
ValidateDocs ==
  {<<HdrLine>> \o lists \o <<BlankLine, DocTitleLine, DocSlugLine>>
     \o abstract \o references :
     lists \in {<<>>, <<Obsoletes12Line>>, <<Obsoletes123Line>>,
                <<Obsoletes12Line, UpdatesLine>>, <<UpdatesLine>>},
     abstract \in {<<>>, <<AbstractLine, IndentedLine>>,
                   <<AbstractLine, MentionLine>>},
     references \in {<<>>, <<RefsLine, CiteLine>>}}

\* one call of parse() in a freshly loaded process, then the validators on
\* the record it returns
NextValidate ==
  \/ \E d \in ValidateDocs : calls = 0 /\ ParseDoc(d)
  \/ \E line \in IF lineIdx < Len(rawText) THEN {rawText[lineIdx + 1]}
                  ELSE {} :
       ScanLine(line)
  \/ lineIdx = Len(rawText) /\ Finish
  \/ \E mode \in Modes, offline \in BOOLEAN, rfcInfo \in RfcInfos :
       validations < MaxValidations
         /\ validateObsoleteUpdateRef(mode, offline, rfcInfo)
  \/ \E mode \in Modes, rfcInfo \in RfcInfos :
       validations < MaxValidations
         /\ validateUnclassifiedReferences(mode, rfcInfo)

SpecValidate == Init /\ [][NextValidate]_vars

----------------------------------------------------------------------------
(* Claims *)

\* a tracked section is open: entered and not closed
IsOpen(m, x) == m[x].start # 0 /\ ~m[x].closed

\* C1: parsing the same input string twice in one process, whatever was parsed
\* before or in between, returns structurally identical records.
C1_SameInputSameRecord ==
  \A i, j \in DOMAIN returned :
    returned[i].body = returned[j].body => returned[i].data = returned[j].data

\* C2: at every point of the scan at most one tracked section is open, and it
\* is the current section (so opening a section, Abstract included, closed the
\* section that was open before).
C2_OnlyCurrentSectionOpen ==
  pc = "scan" => \A x \in Sections : IsOpen(markers, x) => currentSection = x

\* C3: after every scanned line and in the returned record a closed section
\* has end >= start, and the buffer of a closed section never changes again.
C3_ClosedIsFinal ==
  [][pc = "scan" =>
       \A x \in Sections :
         /\ markers'[x].closed => markers'[x].end >= markers'[x].start
         /\ markers[x].closed => content'[x] = content[x]]_vars

\* the trimmed non-blank lines among lines from..to of the input
TrimmedLines(from, to) ==
  LET kept == SelectSeq(SubSeq(doc, from, to), LAMBDA l : Trim(l) # <<>>)
  IN  [i \in DOMAIN kept |-> Trim(kept[i])]

IsSuffix(t, l) == Len(t) <= Len(l) /\ SubSeq(l, Len(l) - Len(t) + 1, Len(l)) = t

\* line markers[x].start was recognized as the header of x after the title
\* and the slug, and no candidate section header and no "Abstract" line
\* follows it in the lines scanned so far
InSpanOf(x) ==
  /\ markers.title # 0
  /\ markers[x].start > markers.title + 1
  /\ \A i \in (markers[x].start + 1)..lineIdx :
       /\ ~IsCandidateHeader(Trim(doc[i]))
       /\ ~IsAbstractLine(Trim(doc[i]))

\* C4 (for the sections of the section table, past the title and the slug):
\* once a line is recognized as the header of section x, that line and the
\* non-blank lines after it, up to the next candidate section header or
\* "Abstract" line, are the trimmed lines at the end of the buffer of x, in
\* input order, and scanning them changes no other section's buffer.
C4_HeaderAndContentAppended ==
  [][pc' = "scan" /\ lineIdx' = lineIdx + 1 =>
       \A x \in Sections \ {"abstract"} :
         InSpanOf(x)' =>
           /\ IsSuffix(TrimmedLines(markers[x].start, lineIdx)',
                       content'[x].lines)
           /\ \A y \in Sections \ {x} : content'[y] = content[y]]_vars

\* a table-of-contents line: it ends in periods and a page number
IsTocLine(l) == TOC_PATTERN(Trim(l))

\* C5: scanning a table-of-contents line leaves the current section and every
\* section's closed flag and end marker unchanged.
C5_TocLineClosesNothing ==
  [][pc = "scan" /\ lineIdx' = lineIdx + 1 /\ IsTocLine(doc'[lineIdx']) =>
       /\ currentSection' = currentSection
       /\ \A x \in Sections :
            /\ markers'[x].closed = markers[x].closed
            /\ markers'[x].end = markers[x].end]_vars

\* C6: no section's start marker is the index of a line that matches the
\* numbered section-title pattern and ends in a dotted leader and page number.
C6_TocLineOpensNothing ==
  \A i \in 1..lineIdx :
    SECTION_PATTERN(Trim(doc[i])) /\ IsTocLine(doc[i]) =>
      \A x \in Sections : markers[x].start # i

\* C6's case: the section detection has handled a table-of-contents line whose
\* title is exactly a tracked section's name, with a section open before it
C6_Witness ==
  /\ pc = "scan"
  /\ lineIdx > markers.title + 1
  /\ markers.title # 0
  /\ doc[lineIdx] = TocLine
  /\ markers.introduction.start # 0
  /\ markers.introduction.end = lineIdx - 1

\* C7: in a returned record every section with a non-zero start is closed, and
\* a section open when the input ended has end = the index of the last line.
C7_AllEnteredSectionsClosed ==
  [][pc = "scan" /\ pc' = "done" =>
       \A x \in Sections :
         /\ markers'[x].start # 0 => markers'[x].closed
         /\ IsOpen(markers, x) => markers'[x].end = lineIdx]_vars

\* C8: after every scanned line and in the returned record,
\* markers[x].start = 0 exactly when sections[x] is null.
C8_StartZeroIffNull ==
  /\ \A x \in Sections : markers[x].start = 0 <=> content[x].isNull
  /\ \A i \in DOMAIN returned : \A x \in Sections :
       returned[i].data.markers[x].start = 0
         <=> returned[i].data.content[x].isNull

\* C8's case: a record is returned with sections entered and sections not
C8_Witness ==
  /\ pc = "done"
  /\ ~content.abstract.isNull
  /\ content.abstract.lines # <<>>
  /\ ~content.introduction.isNull
  /\ content.authorAddress.isNull

\* an indented content line: it continues the abstract
IsIndentedContent(l) ==
  /\ StartsWith(l, <<" ", " ">>)
  /\ Trim(l) # <<>>
  /\ ~StartsWith(Trim(l), <<"Status", " ", "of">>)
  /\ ~IsCandidateHeader(Trim(l))

\* the indented content lines after line i, up to the next non-blank line that
\* is not one
AbstractRun(i) ==
  {j \in (i + 1)..lineIdx :
     /\ IsIndentedContent(doc[j])
     /\ \A k \in (i + 1)..(j - 1) :
          Trim(doc[k]) = <<>> \/ IsIndentedContent(doc[k])}

\* C9 (for an "Abstract" line past the title and the slug): when the input has
\* a line exactly "Abstract" followed by at least one indented content line
\* before the next line that is unindented, starts "Status of" or is a
\* candidate section header, the returned sections.abstract is non-null, its
\* first line is "Abstract" and it contains those indented lines.
C9_AbstractCaptured ==
  pc = "done" =>
    \A i \in 1..lineIdx :
      /\ markers.title # 0
      /\ i > markers.title + 1
      /\ doc[i] = <<"Abstract">>
      /\ AbstractRun(i) # {}
      => /\ ~content.abstract.isNull
         /\ content.abstract.lines # <<>>
         /\ Head(content.abstract.lines) = <<"Abstract">>
         /\ \A j \in AbstractRun(i) :
              Trim(doc[j]) \in Range(content.abstract.lines)

\* C10: a document with no line whose trimmed text is exactly "Abstract" has
\* markers.abstract.start = 0 and sections.abstract = null in its record.
C10_NoAbstractLineNoAbstract ==
  \A r \in DOMAIN returned :
    (\A i \in DOMAIN returned[r].body :
       Trim(returned[r].body[i]) # <<"Abstract">>)
    => /\ returned[r].data.markers.abstract.start = 0
       /\ returned[r].data.content.abstract.isNull

\* C10's case: a record is returned for a document that has a section and a
\* line that begins with "Abstract", and no line that is "Abstract"
C10_Witness ==
  /\ pc = "done"
  /\ \A i \in 1..lineIdx : Trim(doc[i]) # <<"Abstract">>
  /\ \E i \in 1..lineIdx : i > markers.title + 1 /\ doc[i] = AbstractColonLine
  /\ markers.title # 0
  /\ markers.introduction.start # 0

----------------------------------------------------------------------------
(* Claims about references and sub-sections *)

\* a numbered sub-section header: <digits>.<digits>. and a title, and not a
\* table-of-contents line
IsSubHeader(l) ==
  SUBSECTION_PATTERN_test(Trim(l), 0).matched /\ ~TOC_PATTERN(Trim(l))

\* the sub-section headers inside the current References section before
\* line i
SubHeadersBefore(i) ==
  {j \in (markers.references.start + 1)..(i - 1) : IsSubHeader(doc[j])}

\* the entries of new that old does not have
Added(old, new) == {new[i] : i \in (Len(old) + 1)..Len(new)}

\* the citations recorded into the reference-section lists by this step
NewRefEntries ==
  Added(extractedElements.referenceSectionRfc,
        extractedElements'.referenceSectionRfc)
    \cup Added(extractedElements.referenceSectionDraftReferences,
               extractedElements'.referenceSectionDraftReferences)

\* C11: a citation first recorded while References is the current section is
\* tagged normative_references or informative_references when the nearest
\* sub-section header before it inside that References section is a
\* Normative or an Informative References header, and null when no
\* sub-section header precedes it inside that References section.
C11_TaggedWithEnclosingSubSection ==
  [][pc = "scan" /\ lineIdx' = lineIdx + 1 /\ currentSection = "references" =>
       \A e \in NewRefEntries :
         LET before == SubHeadersBefore(lineIdx')
             nearest == subsectionMatchers(Trim(doc[Max(before)]))
         IN  /\ before = {} => e.subsection = "null"
             /\ before # {} /\ nearest # "null" => e.subsection = nearest]_vars

\* n is one of the RFC numbers cited on line i of the input
RfcCitedOn(n, i) ==
  \E k \in DOMAIN RFC_REFERENCE_RE(Trim(doc[i])) :
    RFC_REFERENCE_RE(Trim(doc[i]))[k] = n

\* d is one of the draft citations on line i of the input
DraftCitedOn(d, i) ==
  \E k \in DOMAIN NON_RFC_REFERENCE_RE(Trim(doc[i])) :
    NON_RFC_REFERENCE_RE(Trim(doc[i]))[k] = d

\* the lines of the References section, by the markers of the record
RefsSpan == markers.references.start..markers.references.end

\* C12: in the returned record a value is in a reference-section list only if
\* it is cited on a line between markers.references.start and
\* markers.references.end, and in a non-reference list only if it is cited on
\* a line outside that range.
C12_ListsFollowTheMarkers ==
  pc = "done" =>
    LET ee == extractedElements
    IN  /\ \A k \in DOMAIN ee.referenceSectionRfc :
             \E i \in RefsSpan \cap (1..lineIdx) :
               RfcCitedOn(ee.referenceSectionRfc[k].value, i)
        /\ \A k \in DOMAIN ee.referenceSectionDraftReferences :
             \E i \in RefsSpan \cap (1..lineIdx) :
               DraftCitedOn(ee.referenceSectionDraftReferences[k].value, i)
        /\ \A k \in DOMAIN ee.nonReferenceSectionRfc :
             \E i \in (1..lineIdx) \ RefsSpan :
               RfcCitedOn(ee.nonReferenceSectionRfc[k], i)
        /\ \A k \in DOMAIN ee.nonReferenceSectionDraftReferences :
             \E i \in (1..lineIdx) \ RefsSpan :
               DraftCitedOn(ee.nonReferenceSectionDraftReferences[k], i)

\* no two entries of list are equal
NoRepeat(list) == \A i, j \in DOMAIN list : list[i] = list[j] => i = j

\* the values of a list of { value, subsection } entries
Values(list) == [i \in DOMAIN list |-> list[i].value]

\* the four citation lists have no repeated value
Deduplicated(ee) ==
  /\ NoRepeat(Values(ee.referenceSectionRfc))
  /\ NoRepeat(Values(ee.referenceSectionDraftReferences))
  /\ NoRepeat(ee.nonReferenceSectionRfc)
  /\ NoRepeat(ee.nonReferenceSectionDraftReferences)

\* C13: in every returned record the two reference-section lists have no two
\* entries with the same value and the two non-reference lists have no
\* repeated token.
C13_NoDuplicateCitations ==
  /\ Deduplicated(extractedElements)
  /\ \A r \in DOMAIN returned :
       Deduplicated(returned[r].data.extractedElements)

\* C13's case: a record is returned for a document that cites the same RFC on
\* two lines inside the References section and on a line before it
C13_Witness ==
  /\ pc = "done"
  /\ currentSection = "references"
  /\ \E i, j \in (markers.references.start + 1)..lineIdx :
       i < j /\ RfcCitedOn(<<"1">>, i) /\ RfcCitedOn(<<"1">>, j)
  /\ \E i \in 1..(markers.references.start - 1) : RfcCitedOn(<<"1">>, i)
  /\ Len(extractedElements.referenceSectionRfc) = 1
  /\ Len(extractedElements.nonReferenceSectionRfc) = 1
  /\ Len(extractedElements.referenceSectionDraftReferences) = 1

\* the line scanned by this step went through the header steps to the section
\* scanner
ReachedTheScanner ==
  /\ pc = "scan" /\ pc' = "scan"
  /\ lineIdx' = lineIdx + 1
  /\ Trim(doc'[lineIdx']) # <<>>
  /\ ~Contains(doc'[lineIdx'], <<"FF">>)
  /\ markers'.header.closed
  /\ markers'.slug # lineIdx'

\* C14: every line that matches the numbered sub-section pattern, is not a
\* table-of-contents line and is reached by the section scanner sets
\* currentSubSection to the name of the recognizer its title matches, and to
\* null when it matches none, whatever line was scanned before it.
C14_SubHeaderSetsSubSection ==
  [][ReachedTheScanner /\ IsSubHeader(doc'[lineIdx']) =>
       currentSubSection' = subsectionMatchers(Trim(doc'[lineIdx']))]_vars

----------------------------------------------------------------------------
(* Claims about code fences, exceptions, the sweep, pages and the header *)

HasBegins(l) ==
  Contains(IgnoreCase(l), <<"<", "code", " ", "begins", ">">>)

HasEnds(l) == Contains(IgnoreCase(l), <<"<", "code", " ", "ends", ">">>)

\* line i of d is inside a fenced block: from a <CODE BEGINS> line up to the
\* line before the first <CODE ENDS> line that follows it
InFence(d, i) ==
  \E b \in 1..i : HasBegins(d[b]) /\ \A j \in b..i : ~HasEnds(d[j])

\* the line contains a comment opener or closer, or starts with a hash sign
\* after optional spaces
LooksLikeCode(l) ==
  \/ Contains(l, <<"/", "*">>)
  \/ Contains(l, <<"*", "/">>)
  \/ (Len(l) > CountLeading(l, {" "}) /\ l[CountLeading(l, {" "}) + 1] = "#")

\* C15: every non-blank line outside a fenced block that contains a comment
\* opener or closer, or starts with a hash sign after optional spaces, adds
\* exactly one possibleIssues.inlineCode entry, with that line's number,
\* whatever lines were scanned before it.
C15_CodeLookalikeFlagged ==
  [][/\ pc = "scan"
     /\ lineIdx' = lineIdx + 1
     /\ Trim(doc'[lineIdx']) # <<>>
     /\ LooksLikeCode(doc'[lineIdx'])
     /\ ~InFence(doc', lineIdx')
     => /\ Len(inlineCode') = Len(inlineCode) + 1
        /\ SubSeq(inlineCode', 1, Len(inlineCode)) = inlineCode
        /\ inlineCode'[Len(inlineCode')].line = lineIdx']_vars

C17_OneTypedFailure ==
  [][/\ pc = "scan" /\ pc' = "failed" =>
          /\ error' = [code |-> "TXT_PARSING_FAILED",
                        line |-> Len(doc'),
                        message |-> IF markers.header.start = 0
                                    THEN NullGroups ELSE UndefinedIndexOf]
          /\ returned' = returned
     /\ pc = "failed" => returned' = returned /\ error' \in {error, NoError}
     /\ pc' = "done" => error' = NoError]_vars

\* C17's case: the scan has failed on the third line, in the header block
C17_Witness ==
  /\ pc = "failed"
  /\ lineIdx = 3
  /\ error.line = 3
  /\ error.message = UndefinedIndexOf
  /\ returned = <<>>

\* C18: every non-blank input line scanned so far has been read by the
\* lexical extractors.
C18_EveryLineSwept ==
  pc \in {"scan", "done"} =>
    \A i \in 1..lineIdx : Trim(doc[i]) # <<>> => i \in Range(swept)

\* the number of form-feed characters of the lines of d
FormFeeds(d) ==
  LET RECURSIVE Sum(_)
      Sum(i) == IF i = 0 THEN 0
                ELSE Sum(i - 1) + Len(SelectSeq(d[i], LAMBDA t : t = "FF"))
  IN  Sum(Len(d))

\* C19: pageCount in a returned record is 1 plus the number of form-feed
\* characters of the input.
C19_PageCountCountsFormFeeds ==
  \A r \in DOMAIN returned :
    returned[r].data.pageCount = 1 + FormFeeds(returned[r].body)

\* the first non-blank line of the input, trimmed (<<>> when all are blank)
FirstLineOf(d) ==
  LET nonBlank == {i \in DOMAIN d : Trim(d[i]) # <<>>}
  IN  IF nonBlank = {} THEN <<>> ELSE Trim(d[Min(nonBlank)])

\* the columns of a line made of a name, one gap of two or more spaces and
\* a second name
Columns(l) ==
  LET pairs == {i \in 1..(Len(l) - 1) : l[i] = " " /\ l[i + 1] = " "}
      g == IF pairs = {} THEN 1 ELSE Min(pairs)
      rest == Drop(l, g - 1)
      right == Drop(rest, CountLeading(rest, {" "}))
  IN  [ok |-> /\ pairs # {}
              /\ g > 1
              /\ right # <<>>
              /\ \A i \in 1..(Len(right) - 1) :
                   ~(right[i] = " " /\ right[i + 1] = " "),
       left |-> SubSeq(l, 1, g - 1),
       right |-> right]

\* C20: when the first non-blank line is a source name, a gap of two or more
\* spaces and an author name, header.source is the source name and the name
\* of the first author is the author name, whatever the width of the gap.
C20_SourceAndFirstAuthor ==
  \A r \in DOMAIN returned :
    LET first == FirstLineOf(returned[r].body)
    IN  Columns(first).ok =>
          /\ returned[r].data.header.source = Columns(first).left
          /\ returned[r].data.header.authors[1].name = Columns(first).right

----------------------------------------------------------------------------
(* Claims about the fields of the header *)

\* the left column of a line: the text before its first gap of two or more
\* spaces, or the whole trimmed line when it has no gap
LeftColumn(l) ==
  IF \E i \in 1..(Len(l) - 1) : l[i] = " " /\ l[i + 1] = " "
  THEN Columns(l).left ELSE Trim(l)

\* the indices of the header lines after the first line of a returned record
LaterHeaderLines(rec) ==
  {i \in DOMAIN rec.body :
     /\ i > rec.data.markers.header.start
     /\ i <= rec.data.markers.header.end}

\* C21: when a header line after the first has the left column
\* "Internet-Draft" the returned kind is draft, and when it has a left column
\* that starts with "Request for Comments" the kind is rfc (the last such
\* line decides), whatever the width of the gap before the right column.
C21_KindFromHeaderTokens ==
  \A r \in DOMAIN returned :
    LET rec == returned[r]
        drafts == {i \in LaterHeaderLines(rec) :
                     LeftColumn(rec.body[i]) = <<"Internet", "-", "Draft">>}
        rfcs == {i \in LaterHeaderLines(rec) :
                   StartsWith(LeftColumn(rec.body[i]),
                              <<"Request", " ", "for", " ", "Comments">>)}
    IN  drafts \cup rfcs # {} =>
          rec.docKind = IF Max(drafts \cup rfcs) \in drafts THEN "draft"
                        ELSE "rfc"

\* the name of the first entry of the table whose pattern matches the raw
\* text, read from its beginning, or the raw text when none matches;
\* "Standards Track" goes under its own name
CanonicalStatus(raw) ==
  LET hits == {k \in DOMAIN rfcStatusHierarchy :
                 StatusTest(rfcStatusHierarchy[k], raw, 0).matched}
  IN  IF raw = <<"Standards", " ", "Track">> THEN raw
      ELSE IF hits = {} THEN raw
      ELSE rfcStatusHierarchy[Min(hits)].name

\* the raw status of the last header line after the first whose left column
\* starts with the word and holds a colon; none = TRUE when there is no such
\* line or the last one has no colon
RawStatus(rec, word) ==
  LET at == {i \in LaterHeaderLines(rec) :
               StartsWith(LeftColumn(rec.body[i]), <<word>>)}
      raw == AfterColon(LeftColumn(rec.body[Max(at)]))
  IN  IF at = {} THEN [none |-> TRUE, text |-> <<>>]
      ELSE [none |-> ~raw.defined, text |-> raw.text]

\* C26: the status stored for an "Intended status:" or "Category:" header
\* line is the name of the first entry of the status table, in table order,
\* that matches the raw text ("Standards Track" is stored as
\* "Standards Track"), and the raw text itself when no entry matches.
C26_StatusNameFromTable ==
  \A r \in DOMAIN returned :
    LET rec == returned[r]
        intended == RawStatus(rec, "Intended")
        category == RawStatus(rec, "Category")
    IN  /\ ~intended.none =>
              rec.data.header.intendedStatus = CanonicalStatus(intended.text)
        /\ ~category.none =>
              rec.data.header.category = CanonicalStatus(category.text)

\* a line the loop hands to the header steps: not blank, no form feed
IsScanned(l) == Trim(l) # <<>> /\ "FF" \notin Range(l)

\* the header closes at the first scanned line more than one past
\* header.end, and that line is the title
TitleClosesHeader ==
  pc \in {"scan", "done"} =>
    LET past == {i \in 1..lineIdx :
                   i > markers.header.end + 1 /\ IsScanned(doc[i])}
    IN  IF past = {} THEN markers.title = 0 /\ ~markers.header.closed
        ELSE /\ markers.header.closed
             /\ markers.title = Min(past)
             /\ markers.title > markers.header.end + 1
             /\ title = Trim(doc[markers.title])

\* once the header is closed, header.end stays
HeaderEndStays ==
  pc = "scan" /\ markers.header.closed =>
    markers'.header.end = markers.header.end

\* the statement of C22 as written: once the line after the title has been
\* read, markers.slug is markers.title + 1
C22_SlugAlwaysAfterTitle ==
  [][/\ TitleClosesHeader'
     /\ HeaderEndStays
     /\ pc' \in {"scan", "done"} /\ markers'.title # 0
          /\ lineIdx' > markers'.title =>
            markers'.slug = markers'.title + 1]_vars

\* C22: the header block closes at the first non-blank line more than one
\* past the last recorded header line; that line is the title, and
\* header.end never changes afterwards; the line immediately after the title
\* is recorded as the slug (markers.slug = markers.title + 1) when it is not
\* blank and holds no form feed, and no slug is recorded otherwise
\* (markers.slug = 0).
C22_TitleThenSlug ==
  [][/\ TitleClosesHeader'
     /\ HeaderEndStays
     /\ pc' \in {"scan", "done"} =>
          IF /\ markers'.title # 0
             /\ lineIdx' > markers'.title
             /\ IsScanned(doc'[markers'.title + 1])
          THEN /\ markers'.slug = markers'.title + 1
               /\ slug' = Trim(doc'[markers'.slug])
          ELSE markers'.slug = 0 /\ slug' = <<>>]_vars

\* C22's case: a record with a title on line 3 and the slug on line 4
C22_Witness ==
  /\ pc = "done"
  /\ markers.header.closed
  /\ markers.header.end = 1
  /\ markers.title = 3
  /\ markers.slug = 4
  /\ lineIdx > 4

\* the right column of a line: the text after its gap of two or more spaces
RightColumn(l) ==
  IF \E i \in 1..(Len(l) - 1) : l[i] = " " /\ l[i + 1] = " "
  THEN Columns(l).right ELSE <<>>

\* this step reads a header line after the first
ReadsLaterHeaderLine ==
  /\ pc = "scan" /\ pc' = "scan"
  /\ lineIdx' = lineIdx + 1
  /\ markers.header.start # 0
  /\ ~markers.header.closed
  /\ lineIdx' <= markers.header.end + 1
  /\ IsScanned(doc'[lineIdx'])

\* the last author has no organization yet
LastAuthorHasNoOrg ==
  header.authors # <<>> /\ ~header.authors[Len(header.authors)].hasOrg

\* a right column that is no author name becomes the organization of the
\* previous author when that author has none
OrgRecorded(right) ==
  right # <<>> /\ ~AUTHOR_NAME_RE(right) /\ LastAuthorHasNoOrg =>
    /\ Len(header'.authors) = Len(header.authors)
    /\ header'.authors[Len(header.authors)].hasOrg
    /\ header'.authors[Len(header.authors)].org = right

\* an author name that comes more than one line after the last line with a
\* right-column value gives the previous author the empty organization
EmptyOrgAfterGap(right) ==
  /\ AUTHOR_NAME_RE(right)
  /\ lineIdx' > markers.header.lastAuthor + 1
  /\ LastAuthorHasNoOrg
  => /\ header'.authors[Len(header.authors)].hasOrg
     /\ header'.authors[Len(header.authors)].org = <<>>
     /\ header'.authors[Len(header'.authors)].name = right

\* an organization that is set stays as it is during the call
OrgStays ==
  pc = "scan" =>
    \A i \in DOMAIN header.authors :
      header.authors[i].hasOrg =>
        /\ i \in DOMAIN header'.authors
        /\ header'.authors[i] = header.authors[i]

\* the statement of C23 as written: the right column is recorded whether or
\* not a date has been found
C23_OrgOfPreviousAuthor ==
  [][/\ ReadsLaterHeaderLine =>
          /\ OrgRecorded(RightColumn(doc'[lineIdx']))
          /\ ~header'.date => EmptyOrgAfterGap(RightColumn(doc'[lineIdx']))
     /\ OrgStays]_vars

\* C23: in the header block, while no date has been recorded, a non-empty
\* right-column value that is not an author name is recorded as the
\* organization of the previous author, and an author without organization
\* gets the empty-string organization when a new author name follows a gap
\* of lines without a right-column value; once an author's organization is
\* set (including to the empty string) no later header line changes it.
C23_OrgWhileNoDate ==
  [][/\ ReadsLaterHeaderLine /\ ~header'.date =>
          /\ OrgRecorded(RightColumn(doc'[lineIdx']))
          /\ EmptyOrgAfterGap(RightColumn(doc'[lineIdx']))
     /\ OrgStays]_vars

\* C23's case: the first author was given the empty organization when the
\* second author came after a gap
C23_Witness ==
  /\ pc = "scan"
  /\ Len(header.authors) = 2
  /\ header.authors[1].hasOrg
  /\ header.authors[1].org = <<>>
  /\ ~header.authors[2].hasOrg

----------------------------------------------------------------------------
(* Claims about the boilerplate *)

\* the text holds a sentence of the exact pattern
ContainsExact(text, name) ==
  \E a \in BOILERPLATE_PATTERNS[name] : Contains(text, a)

\* the text holds at least one fragment of a canonical form
HoldsFragment(text) ==
  \E n \in Range(PatternNames) :
    \E k \in DOMAIN BOILERPLATE_PARTS[n] :
      \E a \in BOILERPLATE_PARTS[n][k].alts : Contains(text, a)

\* C24: a returned record of a document whose normalized text holds an exact
\* RFC 2119 sentence has boilerplate.rfc2119 true, one whose text holds the
\* exact RFC 8174 sentence has boilerplate.rfc8174 true, both with
\* similar2119boilerplate false; and similar2119boilerplate is true only if
\* rfc2119 and rfc8174 are both false.
C24_ExactBoilerplateFlags ==
  \A r \in DOMAIN returned :
    LET text == Normalize(returned[r].body)
        b == returned[r].data.boilerplate
    IN  /\ ContainsExact(text, "rfc2119") \/ ContainsExact(text, "rfc2119_alt")
             => b.rfc2119 /\ ~b.similar2119boilerplate
        /\ ContainsExact(text, "rfc8174")
             => b.rfc8174 /\ ~b.similar2119boilerplate
        /\ b.similar2119boilerplate => ~b.rfc2119 /\ ~b.rfc8174

\* C24's case: the second call has returned the record of a document with
\* the RFC 2119 sentence, the first that of one with the RFC 8174 sentence
C24_Witness ==
  /\ Len(returned) = 2
  /\ ContainsExact(Normalize(returned[1].body), "rfc8174")
  /\ returned[1].data.boilerplate.rfc8174
  /\ ContainsExact(Normalize(returned[2].body), "rfc2119")
  /\ returned[2].data.boilerplate.rfc2119
  /\ ~returned[2].data.boilerplate.similar2119boilerplate

\* C25: a returned record of a document whose text holds at least one
\* fragment of a canonical form and no exact sentence has
\* boilerplate.rfc2119 false and similar2119boilerplate true.
C25_FragmentsAreSimilar ==
  \A r \in DOMAIN returned :
    LET text == Normalize(returned[r].body)
        b == returned[r].data.boilerplate
    IN  /\ HoldsFragment(text)
        /\ \A n \in Range(PatternNames) : ~ContainsExact(text, n)
        => ~b.rfc2119 /\ b.similar2119boilerplate

----------------------------------------------------------------------------
(* Claims about the downref registry *)

\* C27: for any interleaving of the calls of checkReferencesInDownrefs in
\* one process, the registry is requested from the network at most once as
\* long as no request has failed: once every call has returned, at most one
\* request has been sent
C27_RegistryRequestedOnce ==
  /\ ~fetchFailed
  /\ \A c \in 1..MaxCallers : callers[c].pc \in {"idle", "done"}
  => requests <= 1

----------------------------------------------------------------------------
(* Claims about the validators *)

\* the record the validators are called on
LastRecord == returned[Len(returned)]

\* the RFCs of the References section the parser tagged with no sub-section
Uncategorized ==
  LET NoSubSection(el) == el.subsection = "null"
      picked == SelectSeq(LastRecord.data.extractedElements.referenceSectionRfc,
                          NoSubSection)
  IN  {picked[i].value : i \in DOMAIN picked}

\* C28: when validateUnclassifiedReferences has been called in the mode
\* NORMAL or FORGIVE_CHECKLIST on a record of parse(), it has looked up
\* every RFC the parser recorded in the References section without a
\* sub-section
C28_UncategorizedExamined ==
  /\ validation.fn = "validateUnclassifiedReferences"
  /\ validation.mode # "SUBMISSION"
  => Uncategorized \subseteq Range(validation.lookups)

\* C29: when validateObsoleteUpdateRef has returned, online and not in the
\* mode SUBMISSION, it has looked up every entry of the obsoletes list and
\* then every entry of the updates list, in the order of the lists
C29_EveryEntryLookedUp ==
  /\ validation.fn = "validateObsoleteUpdateRef"
  /\ validation.mode # "SUBMISSION"
  /\ ~validation.offline
  /\ validation.thrown = "none"
  => validation.lookups =
       LastRecord.data.extractedElements.obsoletesRfc
         \o LastRecord.data.extractedElements.updatesRfc

\* C30: validateObsoleteUpdateRef returns a list of diagnostics and does not
\* throw, whatever record of parse() it is called on
C30_ValidatorDoesNotThrow ==
  validation.fn = "validateObsoleteUpdateRef" => validation.thrown = "none"

====
